---- MODULE Spec2Model ----
(***************************************************************************)
(* Trade reconciliation of the ragard backend.                             *)
(*                                                                         *)
(*   Spec     match_trades (services/trade_history_parser.py): grouping by *)
(*            ticker, the stable sort by date, and the FIFO matching of    *)
(*            BUY and SELL actions into closed trades and open lots.       *)
(*   SpecAgg  build_user_positions_and_trades (services/user_positions.py) *)
(*            run by its two callers, with the price lookups it awaits.    *)
(*                                                                         *)
(* Units.  Quantities are integers in units of the tolerance 0.0001 share, *)
(* so the code's comparisons with 0.0001 are comparisons with Eps.  Fees   *)
(* are multiples of FeeUnit, which every quantity that can divide a fee    *)
(* divides, so that the integer quotients below are the exact quotients.   *)
(***************************************************************************)
EXTENDS Integers, Sequences, FiniteSets, TLC

\* ------------------------------------------------------------------ bounds
\* Longest list of actions handed to match_trades.
MaxActions == 3

\* ------------------------------------------------------- program constants
\* The quantity tolerance 0.0001 of match_trades, in quantity units.
Eps == 1

\* ------------------------------------------------------------ input domain
Tickers == {"AAA", "BBB"}
ActionKinds == {"BUY", "SELL"}
Quantities == {1, 2, 4}
Dates == {1, 2}
MaxQuantity == CHOOSE q \in Quantities : \A r \in Quantities : r <= q

RECURSIVE Factorial(_)
Factorial(n) == IF n <= 1 THEN 1 ELSE n * Factorial(n - 1)

\* Every quantity up to MaxQuantity divides FeeUnit twice over.
FeeUnit == Factorial(MaxQuantity) * Factorial(MaxQuantity)

\* Price and fees never decide a branch of match_trades: row i carries its
\* own price and its own nonzero fee, so that a trade shows which rows it
\* matched.  description is free text; row i carries i.
PriceOf(i) == 10 * i
FeesOf(i) == FeeUnit * i

RowChoices == [date : Dates, action : ActionKinds, ticker : Tickers,
               quantity : Quantities]

\* TradeAction.__init__
TradeAction(date, action, ticker, quantity, price, fees, amount, description) ==
    [date |-> date, action |-> action, ticker |-> ticker,
     quantity |-> quantity, price |-> price, fees |-> fees,
     amount |-> amount, description |-> description]

\* The list built from the choices c made for its rows.
InputList(c) ==
    [i \in DOMAIN c |->
        TradeAction(c[i].date, c[i].action, c[i].ticker, c[i].quantity,
                    PriceOf(i), FeesOf(i), PriceOf(i) * c[i].quantity, i)]

\* ---------------------------------------------------------------- helpers
Min(a, b) == IF a <= b THEN a ELSE b
Max(a, b) == IF a >= b THEN a ELSE b

Abs(x) == IF x < 0 THEN -x ELSE x

RECURSIVE SumSeq(_)
SumSeq(s) == IF s = <<>> THEN 0 ELSE Head(s) + SumSeq(Tail(s))

\* fees * (part / whole) of the code, as an exact quotient.
Prorate(fees, part, whole) == (fees * part) \div whole

\* The keys of the defaultdict ticker_actions, in insertion order.
RECURSIVE TickerKeys(_, _)
TickerKeys(as, seen) ==
    IF as = <<>> THEN <<>>
    ELSE IF Head(as).ticker \in seen THEN TickerKeys(Tail(as), seen)
    ELSE <<Head(as).ticker>> \o TickerKeys(Tail(as), seen \cup {Head(as).ticker})

\* ticker_actions[ticker]: the actions of one ticker, in input order.
ActionsOfTicker(as, t) == SelectSeq(as, LAMBDA a : a.ticker = t)

\* Variant: an element goes before the elements of its own date.
StaysBeforeStrict(kept, x) == kept.date < x.date

\* The sort compares keys only and is stable: an element already placed
\* stays before a later element of the same date.
StaysBefore(kept, x) == kept.date <= x.date

\* list.sort(key=lambda x: x.date): a stable sort.
RECURSIVE InsertByDate(_, _)
InsertByDate(s, x) ==
    IF s = <<>> THEN <<x>>
    ELSE IF StaysBefore(Head(s), x) THEN <<Head(s)>> \o InsertByDate(Tail(s), x)
    ELSE <<x>> \o s

RECURSIVE SortByDate(_)
SortByDate(s) ==
    IF s = <<>> THEN <<>>
    ELSE InsertByDate(SortByDate(SubSeq(s, 1, Len(s) - 1)), s[Len(s)])

\* ------------------------------------------------------------------ state
VARIABLES
    actions,               \* the list given to match_trades
    pc,                    \* position inside match_trades
    tickerQueue,           \* tickers of ticker_actions.items() still to process
    ticker,                \* the ticker being processed
    ticker_actions_list,   \* its actions, sorted by date
    idx,                   \* index of the next action of ticker_actions_list
    action,                \* the action being processed
    remaining_quantity,
    open_long_positions,
    open_short_positions,
    parsed_trades,
    all_open_positions,
    object_of              \* which object each element of the three lists is

matchVars == <<actions, pc, tickerQueue, ticker, ticker_actions_list, idx,
               action, remaining_quantity, open_long_positions,
               open_short_positions, parsed_trades, all_open_positions,
               object_of>>

\* State of build_user_positions_and_trades and of its caller.
VARIABLES
    caller,                \* "report" (no deadline) or "base_stats" (wait_for 10 s)
    now,                   \* datetime.now(timezone.utc) of the run
    trades_data,           \* the stored closed trades handed to the aggregator
    stored_lots,           \* the user's rows of table user_open_positions
    aggPc,                 \* position inside the aggregator and its caller
    groups,                \* keys of the dict aggregated, in insertion order
    g,                     \* index of the next (ticker, side) group
    closed_trades,
    open_positions,
    elapsed,               \* seconds awaited since the caller's wait_for began
    lookups,               \* history: the awaited lookups, one record per await
    open_positions_list,   \* the caller's result; None until it has one
    first_run              \* history: None, or Some(what an earlier run returned)

aggVars == <<caller, now, trades_data, stored_lots, aggPc, groups, g,
             closed_trades, open_positions, elapsed, lookups,
             open_positions_list, first_run>>

\* State of parse_trade_history_csv around its call of match_trades.
VARIABLES
    csv_content,           \* the input: its header line and its other lines
    csvPc,                 \* position inside parse_trade_history_csv
    column_map,            \* lowercased, stripped field name -> field name
    row_num,               \* index of the next line after the header
    skipped_count,
    tzinfo,                \* tzinfo[i]: date of actions[i] is offset-aware
    raised                 \* None, or Some(the exception that left the call)

csvVars == <<csv_content, csvPc, column_map, row_num, skipped_count, tzinfo,
             raised>>

\* State of one call of _parse_option_ticker.
VARIABLES
    opt_ticker,            \* ticker.split(): the tokens of the argument
    opt_result,            \* the value returned: None or Some(OptionMetadata)
    optPc

optVars == <<opt_ticker, opt_result, optPc>>

\* The table user_open_positions and the calls of save_open_positions.
VARIABLES
    user_open_positions,   \* the user's rows of the table, in insertion order
    savePc,                \* savePc[p]: position of call p
    save_arg,              \* save_arg[p]: the open_positions argument of call p
    completed              \* history: the calls that have returned, in order

storeVars == <<user_open_positions, savePc, save_arg, completed>>

\* State of upload_trade_history after its parsing step.
VARIABLES
    upPc,                  \* position inside upload_trade_history
    upload_trades,         \* parsed_trades: the closed trades with their scores
    upload_lots,           \* open_positions: the open lots of the parse
    stored_before,         \* what the user's two tables held when the upload started
    score_lookups,         \* history: per trade, what its score lookups met
    user_trades,           \* the user's rows of the table user_trades
    imported_count,
    http_error             \* None, or Some(detail of the HTTPException raised)

uploadVars == <<upPc, upload_trades, upload_lots, stored_before, score_lookups, user_trades,
                imported_count, http_error>>

\* State of one call of calculate_ragard_score.
VARIABLES
    symbol,                \* ticker.symbol
    scorer_calls,          \* history: the arguments the scorer was called with
    scorer_outcome,        \* history: what the scorer did
    score_result,          \* the value returned: None or Some(int)
    score_raised,          \* TRUE when an exception left calculate_ragard_score
    scorePc

scoreVars == <<symbol, scorer_calls, scorer_outcome, score_result, score_raised, scorePc>>

\* State of one call of a function that reads one field of a CSV row:
\* normalize_action or parse_timestamp.
VARIABLES
    text_input,            \* the string given
    text_origin,           \* history: how the string given was built
    text_result,           \* the value returned; None before the call
    textPc

textVars == <<text_input, text_origin, text_result, textPc>>

\* The variables of the functions modelled on their own.
restVars == <<optVars, storeVars, uploadVars, scoreVars, textVars>>

vars == <<matchVars, aggVars, csvVars, restVars>>

NoAction == [date |-> 0]

\* Object identity.  The elements of ticker_actions_list and of the two
\* queues are references: each is the object at some position of the list
\* given to match_trades, or an object match_trades has constructed.
\* object_of.list, .long and .short run parallel to ticker_actions_list,
\* open_long_positions and open_short_positions.
NewObject == 0

NoObjects == [list |-> <<>>, long |-> <<>>, short |-> <<>>]

\* Optional values: None is the empty tuple, Some(x) the tuple of x.
None == <<>>
Some(x) == <<x>>

\* The aggregator is not running.
AggIdle ==
    /\ caller = "none"
    /\ now = 0
    /\ trades_data = <<>>
    /\ stored_lots = <<>>
    /\ aggPc = "idle"
    /\ groups = <<>>
    /\ g = 1
    /\ closed_trades = <<>>
    /\ open_positions = <<>>
    /\ elapsed = 0
    /\ lookups = <<>>
    /\ open_positions_list = None
    /\ first_run = None

\* parse_trade_history_csv is not running.
CsvIdle ==
    /\ csv_content = <<>>
    /\ csvPc = "idle"
    /\ column_map = <<>>
    /\ row_num = 1
    /\ skipped_count = 0
    /\ tzinfo = <<>>
    /\ raised = None

\* _parse_option_ticker is not running.
OptIdle ==
    /\ opt_ticker = <<>>
    /\ opt_result = None
    /\ optPc = "idle"

\* The calls of save_open_positions.
Savers == {1, 2}

\* No call of save_open_positions is running; the table is empty.
StoreIdle ==
    /\ user_open_positions = <<>>
    /\ savePc = [p \in Savers |-> "idle"]
    /\ save_arg = [p \in Savers |-> <<>>]
    /\ completed = <<>>

\* upload_trade_history is not running.
UploadIdle ==
    /\ upPc = "idle"
    /\ upload_trades = <<>>
    /\ upload_lots = <<>>
    /\ stored_before = None
    /\ score_lookups = <<>>
    /\ user_trades = <<>>
    /\ imported_count = 0
    /\ http_error = None

\* calculate_ragard_score is not running.
ScoreIdle ==
    /\ symbol = ""
    /\ scorer_calls = <<>>
    /\ scorer_outcome = None
    /\ score_result = None
    /\ score_raised = FALSE
    /\ scorePc = "idle"

\* No field-reading function is running on its own.
TextIdle ==
    /\ text_input = ""
    /\ text_origin = <<>>
    /\ text_result = None
    /\ textPc = "idle"

RestIdle == OptIdle /\ StoreIdle /\ UploadIdle /\ ScoreIdle /\ TextIdle

Init ==
    /\ AggIdle
    /\ CsvIdle
    /\ RestIdle
    /\ \E n \in 1..MaxActions : \E c \in [1..n -> RowChoices] :
          actions = InputList(c)
    /\ pc = "ticker"
    /\ tickerQueue = TickerKeys(actions, {})
    /\ ticker = ""
    /\ ticker_actions_list = <<>>
    /\ idx = 1
    /\ action = NoAction
    /\ remaining_quantity = 0
    /\ open_long_positions = <<>>
    /\ open_short_positions = <<>>
    /\ parsed_trades = <<>>
    /\ all_open_positions = <<>>
    /\ object_of = NoObjects

\* ParsedTrade.__init__ (raw_metadata flattened into two fields).  q quantity,
\* et/xt entry/exit time, ep/xp entry/exit price, ef/xf entry/exit fees,
\* ed/xd entry/exit description.
ParsedTrade(tk, side, q, et, xt, ep, xp, pnl, hold, ef, xf, ed, xd) ==
    [ticker |-> tk, side |-> side, quantity |-> q,
     entry_time |-> et, exit_time |-> xt,
     entry_price |-> ep, exit_price |-> xp,
     realized_pnl |-> pnl, holding_period_seconds |-> hold,
     entry_fees |-> ef, exit_fees |-> xf,
     entry_description |-> ed, exit_description |-> xd]

\* OpenPosition.__init__ of trade_history_parser.py (an open lot)
OpenLot(tk, side, quantity, entry_price, entry_time, entry_fees, description) ==
    [ticker |-> tk, side |-> side, quantity |-> quantity,
     entry_price |-> entry_price, entry_time |-> entry_time,
     entry_fees |-> entry_fees, description |-> description]

\* Variant: the whole lot is matched, whatever the action has left.
MatchQuantityWholeLot(remaining, lot) == lot.quantity

\* min(remaining_quantity, lot.quantity)
MatchQuantity(remaining, lot) == Min(remaining, lot.quantity)

\* lot.fees * (match_quantity / lot.quantity): the lot's quantity is the one
\* the earlier matches have already decremented.
EntryFees(lot, match_quantity) == Prorate(lot.fees, match_quantity, lot.quantity)

\* action.fees * (match_quantity / action.quantity)
ExitFees(a, match_quantity) == Prorate(a.fees, match_quantity, a.quantity)

\* (entry_price - exit_price) * match_quantity - entry_fees - exit_fees
ShortPnl(entry_price, exit_price, match_quantity, entry_fees, exit_fees) ==
    (entry_price - exit_price) * match_quantity - entry_fees - exit_fees

\* Variant: the exit fees are not charged.
LongPnlNoExitFees(entry_price, exit_price, match_quantity, entry_fees, exit_fees) ==
    (exit_price - entry_price) * match_quantity - entry_fees

\* (exit_price - entry_price) * match_quantity - entry_fees - exit_fees
LongPnl(entry_price, exit_price, match_quantity, entry_fees, exit_fees) ==
    (exit_price - entry_price) * match_quantity - entry_fees - exit_fees

\* The ParsedTrade of one match of `a` against the queued `lot` of ticker tk.
TradeFor(tk, side, lot, a, match_quantity) ==
    LET entry_fees == EntryFees(lot, match_quantity)
        exit_fees == ExitFees(a, match_quantity)
        realized_pnl ==
            IF side = "SHORT"
            THEN ShortPnl(lot.price, a.price, match_quantity, entry_fees, exit_fees)
            ELSE LongPnl(lot.price, a.price, match_quantity, entry_fees, exit_fees)
    IN ParsedTrade(tk, side, match_quantity, lot.date, a.date,
                   lot.price, a.price, realized_pnl, a.date - lot.date,
                   entry_fees, exit_fees, lot.description, a.description)

\* The ParsedTrade of one match, for the ticker being processed.
MatchTrade(side, lot, a, match_quantity) == TradeFor(ticker, side, lot, a, match_quantity)

\* Variant: a lot leaves its queue only when nothing at all is left of it.
AfterMatchKeepsResidue(queue, match_quantity) ==
    LET left == Head(queue).quantity - match_quantity
    IN IF left <= 0 THEN Tail(queue)
       ELSE <<[Head(queue) EXCEPT !.quantity = left]>> \o Tail(queue)

\* lot.quantity -= match_quantity; pop(0) if lot.quantity <= 0.0001
AfterMatch(queue, match_quantity) ==
    LET left == Head(queue).quantity - match_quantity
    IN IF left <= Eps THEN Tail(queue)
       ELSE <<[Head(queue) EXCEPT !.quantity = left]>> \o Tail(queue)

\* The TradeAction queued for the quantity an action has left.
RemainingLot(a, remaining) ==
    TradeAction(a.date, a.action, a.ticker, remaining, a.price,
                Prorate(a.fees, remaining, a.quantity), a.price * remaining,
                a.description)

\* Variant: the new lot is put at the front of the queue.
AfterOpenAtFront(queue, a, remaining) ==
    IF remaining > Eps THEN <<RemainingLot(a, remaining)>> \o queue ELSE queue

\* if remaining_quantity > 0.0001: queue.append(remaining lot)
AfterOpen(queue, a, remaining) ==
    IF remaining > Eps THEN Append(queue, RemainingLot(a, remaining)) ELSE queue

\* Variant: only a lot older than the action is matched.
LoopGoesOnOlderOnly(remaining, queue, a) ==
    remaining > 0 /\ queue # <<>> /\ Head(queue).date < a.date

\* while remaining_quantity > 0 and <opposite queue>:
LoopGoesOn(remaining, queue, a) ==
    remaining > 0 /\ queue # <<>>

\* ticker_actions[ticker] after its sort, as positions of the list given:
\* the grouping loop appends the very objects of that list to new lists.
SortedPositions(as, t) ==
    LET tagged == [i \in 1..Len(as) |-> [date |-> as[i].date, ticker |-> as[i].ticker, pos |-> i]]
        sorted == SortByDate(ActionsOfTicker(tagged, t))
    IN [k \in 1..Len(sorted) |-> sorted[k].pos]

\* Variant: the action itself is queued for the quantity it has left.
QueuedObjectIsAction(ref) == ref

\* remaining_buy / remaining_sell = TradeAction(...): the object queued for
\* an action is a new one.
QueuedObject(ref) == NewObject

\* lot.quantity -= match_quantity, as the caller's list shows it: the field
\* of an object of that list changes, a constructed object is not in it.
Decrement(as, ref, match_quantity) ==
    IF ref = NewObject THEN as
    ELSE [as EXCEPT ![ref].quantity = @ - match_quantity]

\* The references of a queue after AfterMatch and after AfterOpen.
RefsAfterMatch(refs, queue, match_quantity) ==
    IF Len(AfterMatch(queue, match_quantity)) < Len(queue) THEN Tail(refs) ELSE refs

RefsAfterOpen(refs, ref, remaining) ==
    IF remaining > Eps THEN Append(refs, QueuedObject(ref)) ELSE refs

\* The OpenPosition objects collected from one queue of ticker tk.
LotsFor(tk, queue, side) ==
    [i \in 1..Len(queue) |->
        OpenLot(tk, side, queue[i].quantity, queue[i].price, queue[i].date,
                queue[i].fees, queue[i].description)]

\* The OpenPosition objects collected from one queue.
CollectLots(queue, side) == LotsFor(ticker, queue, side)

\* What the body of the per-ticker loop computes from one ticker's list of
\* actions alone: the queues start empty, each action of the sorted list
\* runs its branch (the while loop, then the lot for what is left), and the
\* lots left are collected, LONG first.
RECURSIVE BuyAlone(_, _, _, _)
BuyAlone(tk, st, a, remaining) ==
    IF LoopGoesOn(remaining, st.short, a)
    THEN LET match_quantity == MatchQuantity(remaining, Head(st.short))
         IN BuyAlone(tk, [st EXCEPT !.trades = Append(@, TradeFor(tk, "SHORT", Head(st.short), a, match_quantity)),
                                    !.short = AfterMatch(@, match_quantity)], a, remaining - match_quantity)
    ELSE [st EXCEPT !.long = AfterOpen(@, a, remaining)]

RECURSIVE SellAlone(_, _, _, _)
SellAlone(tk, st, a, remaining) ==
    IF LoopGoesOn(remaining, st.long, a)
    THEN LET match_quantity == MatchQuantity(remaining, Head(st.long))
         IN SellAlone(tk, [st EXCEPT !.trades = Append(@, TradeFor(tk, "LONG", Head(st.long), a, match_quantity)),
                                     !.long = AfterMatch(@, match_quantity)], a, remaining - match_quantity)
    ELSE [st EXCEPT !.short = AfterOpen(@, a, remaining)]

RECURSIVE ActionsAlone(_, _, _)
ActionsAlone(tk, st, list) ==
    IF list = <<>> THEN st
    ELSE ActionsAlone(tk, IF Head(list).action = "BUY"
                          THEN BuyAlone(tk, st, Head(list), Head(list).quantity)
                          ELSE SellAlone(tk, st, Head(list), Head(list).quantity), Tail(list))

TickerAlone(tk, list) ==
    LET st == ActionsAlone(tk, [long |-> <<>>, short |-> <<>>, trades |-> <<>>], SortByDate(list))
    IN [trades |-> st.trades, lots |-> LotsFor(tk, st.long, "LONG") \o LotsFor(tk, st.short, "SHORT")]

\* open_long_positions = [] / open_short_positions = [] at the head of the
\* per-ticker loop.
QueueOfNextTicker(queue) == <<>>

\* for ticker, ticker_actions_list in ticker_actions.items(): sort, new queues
NextTicker ==
    /\ pc = "ticker"
    /\ tickerQueue # <<>>
    /\ ticker' = Head(tickerQueue)
    /\ tickerQueue' = Tail(tickerQueue)
    /\ ticker_actions_list' = SortByDate(ActionsOfTicker(actions, Head(tickerQueue)))
    /\ idx' = 1
    /\ open_long_positions' = QueueOfNextTicker(open_long_positions)
    /\ open_short_positions' = QueueOfNextTicker(open_short_positions)
    /\ object_of' = [list |-> SortedPositions(actions, Head(tickerQueue)), long |-> QueueOfNextTicker(object_of.long), short |-> QueueOfNextTicker(object_of.short)]
    /\ pc' = "for"
    /\ UNCHANGED <<aggVars, csvVars, restVars>>
    /\ UNCHANGED <<actions, action, remaining_quantity, parsed_trades,
                   all_open_positions>>

\* for action in ticker_actions_list: remaining_quantity = action.quantity
ForAction ==
    /\ pc = "for"
    /\ idx <= Len(ticker_actions_list)
    /\ action' = ticker_actions_list[idx]
    /\ remaining_quantity' = ticker_actions_list[idx].quantity
    /\ pc' = IF ticker_actions_list[idx].action = "BUY" THEN "buy" ELSE "sell"
    /\ UNCHANGED <<aggVars, csvVars, restVars>>
    /\ UNCHANGED <<actions, tickerQueue, ticker, ticker_actions_list, idx,
                   open_long_positions, open_short_positions, parsed_trades,
                   all_open_positions, object_of>>

\* BUY branch, one iteration of the while loop: cover the oldest short lot.
CoverShort ==
    /\ pc = "buy"
    /\ LoopGoesOn(remaining_quantity, open_short_positions, action)
    /\ LET short_action == Head(open_short_positions)
           match_quantity == MatchQuantity(remaining_quantity, short_action)
       IN /\ parsed_trades' = Append(parsed_trades,
                 MatchTrade("SHORT", short_action, action, match_quantity))
          /\ remaining_quantity' = remaining_quantity - match_quantity
          /\ open_short_positions' = AfterMatch(open_short_positions, match_quantity)
          /\ actions' = Decrement(actions, Head(object_of.short), match_quantity)
          /\ object_of' = [object_of EXCEPT !.short = RefsAfterMatch(@, open_short_positions, match_quantity)]
    /\ UNCHANGED <<aggVars, csvVars, restVars>>
    /\ UNCHANGED <<pc, tickerQueue, ticker, ticker_actions_list, idx,
                   action, open_long_positions, all_open_positions>>

\* BUY branch after the loop: the quantity left opens a LONG lot.
OpenLong ==
    /\ pc = "buy"
    /\ ~LoopGoesOn(remaining_quantity, open_short_positions, action)
    /\ open_long_positions' = AfterOpen(open_long_positions, action, remaining_quantity)
    /\ object_of' = [object_of EXCEPT !.long = RefsAfterOpen(@, object_of.list[idx], remaining_quantity)]
    /\ idx' = idx + 1
    /\ pc' = "for"
    /\ UNCHANGED <<aggVars, csvVars, restVars>>
    /\ UNCHANGED <<actions, tickerQueue, ticker, ticker_actions_list, action,
                   remaining_quantity, open_short_positions, parsed_trades,
                   all_open_positions>>

\* SELL branch, one iteration of the while loop: close the oldest long lot.
CloseLong ==
    /\ pc = "sell"
    /\ LoopGoesOn(remaining_quantity, open_long_positions, action)
    /\ LET buy_action == Head(open_long_positions)
           match_quantity == MatchQuantity(remaining_quantity, buy_action)
       IN /\ parsed_trades' = Append(parsed_trades,
                 MatchTrade("LONG", buy_action, action, match_quantity))
          /\ remaining_quantity' = remaining_quantity - match_quantity
          /\ open_long_positions' = AfterMatch(open_long_positions, match_quantity)
          /\ actions' = Decrement(actions, Head(object_of.long), match_quantity)
          /\ object_of' = [object_of EXCEPT !.long = RefsAfterMatch(@, open_long_positions, match_quantity)]
    /\ UNCHANGED <<aggVars, csvVars, restVars>>
    /\ UNCHANGED <<pc, tickerQueue, ticker, ticker_actions_list, idx,
                   action, open_short_positions, all_open_positions>>

\* SELL branch after the loop: the quantity left opens a SHORT lot.
OpenShort ==
    /\ pc = "sell"
    /\ ~LoopGoesOn(remaining_quantity, open_long_positions, action)
    /\ open_short_positions' = AfterOpen(open_short_positions, action, remaining_quantity)
    /\ object_of' = [object_of EXCEPT !.short = RefsAfterOpen(@, object_of.list[idx], remaining_quantity)]
    /\ idx' = idx + 1
    /\ pc' = "for"
    /\ UNCHANGED <<aggVars, csvVars, restVars>>
    /\ UNCHANGED <<actions, tickerQueue, ticker, ticker_actions_list, action,
                   remaining_quantity, open_long_positions, parsed_trades,
                   all_open_positions>>

\* After the last action of the ticker: collect its open lots, LONG first.
CollectOpen ==
    /\ pc = "for"
    /\ idx > Len(ticker_actions_list)
    /\ all_open_positions' = all_open_positions
                               \o CollectLots(open_long_positions, "LONG")
                               \o CollectLots(open_short_positions, "SHORT")
    /\ pc' = "ticker"
    /\ UNCHANGED <<aggVars, csvVars, restVars>>
    /\ UNCHANGED <<actions, tickerQueue, ticker, ticker_actions_list, idx,
                   action, remaining_quantity, open_long_positions,
                   open_short_positions, parsed_trades, object_of>>

\* return parsed_trades, all_open_positions
Return ==
    /\ pc = "ticker"
    /\ tickerQueue = <<>>
    /\ pc' = "done"
    /\ UNCHANGED <<aggVars, csvVars, restVars>>
    /\ UNCHANGED <<actions, tickerQueue, ticker, ticker_actions_list, idx,
                   action, remaining_quantity, open_long_positions,
                   open_short_positions, parsed_trades, all_open_positions,
                   object_of>>

Next ==
    \/ NextTicker
    \/ ForAction
    \/ CoverShort
    \/ OpenLong
    \/ CloseLong
    \/ OpenShort
    \/ CollectOpen
    \/ Return

Spec == Init /\ [][Next]_vars

\* ------------------------------------------------------ exact quotients
\* The aggregator divides (average price, returns); a quotient is kept as the
\* reduced fraction [num, den], den > 0.
RECURSIVE Gcd(_, _)
Gcd(a, b) == IF b = 0 THEN a ELSE Gcd(b, a % b)

Rat(n, d) ==
    LET k == Gcd(Abs(n), Abs(d))
        sgn == IF d < 0 THEN -1 ELSE 1
    IN [num |-> sgn * (n \div k), den |-> sgn * (d \div k)]

RatInt(n) == [num |-> n, den |-> 1]
RatSub(x, y) == Rat(x.num * y.den - y.num * x.den, x.den * y.den)
RatMul(x, y) == Rat(x.num * y.num, x.den * y.den)
RatDiv(x, y) == Rat(x.num * y.den, x.den * y.num)

\* ------------------------------------------------- option ticker parser
\* A ticker of the aggregator is the sequence of its whitespace-separated
\* tokens (ticker.split()).  Dates are day numbers.
DateTokens == {"01/10/2025", "01/30/2025"}
DateOf(tok) == IF tok = "01/10/2025" THEN 10 ELSE 30
FloatTokens == {"50"}
FloatOf(tok) == 50

\* str.strip and str.upper on the action strings of the vocabulary below, as
\* pairs (text, result); a text in no pair is returned as it is.
StripPairs ==
    {
        <<" ", "">>, <<" ADJUSTMENT ", "ADJUSTMENT">>,
        <<" ASSIGNED ", "ASSIGNED">>, <<" Adjustment ", "Adjustment">>,
        <<" Assigned ", "Assigned">>, <<" BOUGHT ", "BOUGHT">>,
        <<" BUY ", "BUY">>, <<" BUY TO ", "BUY TO">>,
        <<" BUY TO CLOSE ", "BUY TO CLOSE">>,
        <<" BUY TO OPEN ", "BUY TO OPEN">>, <<" BUYS ", "BUYS">>,
        <<" Bought ", "Bought">>, <<" Buy ", "Buy">>,
        <<" Buy To ", "Buy To">>, <<" Buy To Close ", "Buy To Close">>,
        <<" Buy To Open ", "Buy To Open">>, <<" Buys ", "Buys">>,
        <<" CASH DIVIDEND ", "CASH DIVIDEND">>,
        <<" Cash Dividend ", "Cash Dividend">>,
        <<" DIVIDEND ", "DIVIDEND">>, <<" Dividend ", "Dividend">>,
        <<" EXERCISED ", "EXERCISED">>, <<" EXPIRED ", "EXPIRED">>,
        <<" Exercised ", "Exercised">>, <<" Expired ", "Expired">>,
        <<" FEE ", "FEE">>, <<" FOREIGN TAX PAID ", "FOREIGN TAX PAID">>,
        <<" Fee ", "Fee">>, <<" Foreign Tax Paid ", "Foreign Tax Paid">>,
        <<" HOLD ", "HOLD">>, <<" Hold ", "Hold">>,
        <<" INTEREST ", "INTEREST">>, <<" Interest ", "Interest">>,
        <<" JOURNAL ", "JOURNAL">>, <<" Journal ", "Journal">>,
        <<" MARGIN INTEREST ", "MARGIN INTEREST">>,
        <<" MERGER ", "MERGER">>,
        <<" Margin Interest ", "Margin Interest">>,
        <<" Merger ", "Merger">>,
        <<" QUALIFIED DIVIDEND ", "QUALIFIED DIVIDEND">>,
        <<" Qualified Dividend ", "Qualified Dividend">>,
        <<" REINVESTMENT ", "REINVESTMENT">>,
        <<" Reinvestment ", "Reinvestment">>, <<" SELL ", "SELL">>,
        <<" SELL  SHORT ", "SELL  SHORT">>,
        <<" SELL SHORT ", "SELL SHORT">>,
        <<" SELL TO CLOSE ", "SELL TO CLOSE">>,
        <<" SELL TO OPEN ", "SELL TO OPEN">>, <<" SHORT ", "SHORT">>,
        <<" SHORT SELL ", "SHORT SELL">>, <<" SPIN-OFF ", "SPIN-OFF">>,
        <<" STOCK DIVIDEND ", "STOCK DIVIDEND">>,
        <<" STOCK MERGER ", "STOCK MERGER">>,
        <<" STOCK SPLIT ", "STOCK SPLIT">>, <<" Sell ", "Sell">>,
        <<" Sell  Short ", "Sell  Short">>,
        <<" Sell Short ", "Sell Short">>,
        <<" Sell To Close ", "Sell To Close">>,
        <<" Sell To Open ", "Sell To Open">>, <<" Short ", "Short">>,
        <<" Short Sell ", "Short Sell">>, <<" Spin-Off ", "Spin-Off">>,
        <<" Stock Dividend ", "Stock Dividend">>,
        <<" Stock Merger ", "Stock Merger">>,
        <<" Stock Split ", "Stock Split">>, <<" TAX ", "TAX">>,
        <<" TRANSFER ", "TRANSFER">>, <<" Tax ", "Tax">>,
        <<" Transfer ", "Transfer">>, <<" adjustment ", "adjustment">>,
        <<" assigned ", "assigned">>, <<" bought ", "bought">>,
        <<" buy ", "buy">>, <<" buy to ", "buy to">>,
        <<" buy to close ", "buy to close">>,
        <<" buy to open ", "buy to open">>, <<" buys ", "buys">>,
        <<" cash dividend ", "cash dividend">>,
        <<" dividend ", "dividend">>, <<" exercised ", "exercised">>,
        <<" expired ", "expired">>, <<" fee ", "fee">>,
        <<" foreign tax paid ", "foreign tax paid">>, <<" hold ", "hold">>,
        <<" interest ", "interest">>, <<" journal ", "journal">>,
        <<" margin interest ", "margin interest">>,
        <<" merger ", "merger">>,
        <<" qualified dividend ", "qualified dividend">>,
        <<" reinvestment ", "reinvestment">>, <<" sell ", "sell">>,
        <<" sell  short ", "sell  short">>,
        <<" sell short ", "sell short">>,
        <<" sell to close ", "sell to close">>,
        <<" sell to open ", "sell to open">>, <<" short ", "short">>,
        <<" short sell ", "short sell">>, <<" spin-off ", "spin-off">>,
        <<" stock dividend ", "stock dividend">>,
        <<" stock merger ", "stock merger">>,
        <<" stock split ", "stock split">>, <<" tax ", "tax">>,
        <<" transfer ", "transfer">>
    }

UpperPairs ==
    {
        <<"Adjustment", "ADJUSTMENT">>, <<"Assigned", "ASSIGNED">>,
        <<"Bought", "BOUGHT">>, <<"Buy", "BUY">>, <<"Buy To", "BUY TO">>,
        <<"Buy To Close", "BUY TO CLOSE">>,
        <<"Buy To Open", "BUY TO OPEN">>, <<"Buys", "BUYS">>,
        <<"Cash Dividend", "CASH DIVIDEND">>, <<"Dividend", "DIVIDEND">>,
        <<"Exercised", "EXERCISED">>, <<"Expired", "EXPIRED">>,
        <<"Fee", "FEE">>, <<"Foreign Tax Paid", "FOREIGN TAX PAID">>,
        <<"Interest", "INTEREST">>, <<"Journal", "JOURNAL">>,
        <<"Margin Interest", "MARGIN INTEREST">>, <<"Merger", "MERGER">>,
        <<"Qualified Dividend", "QUALIFIED DIVIDEND">>,
        <<"Reinvestment", "REINVESTMENT">>, <<"Sell", "SELL">>,
        <<"Sell  Short", "SELL  SHORT">>, <<"Sell Short", "SELL SHORT">>,
        <<"Sell To Close", "SELL TO CLOSE">>,
        <<"Sell To Open", "SELL TO OPEN">>, <<"Short", "SHORT">>,
        <<"Short Sell", "SHORT SELL">>, <<"Spin-Off", "SPIN-OFF">>,
        <<"Stock Dividend", "STOCK DIVIDEND">>,
        <<"Stock Merger", "STOCK MERGER">>,
        <<"Stock Split", "STOCK SPLIT">>, <<"Tax", "TAX">>,
        <<"Transfer", "TRANSFER">>, <<"adjustment", "ADJUSTMENT">>,
        <<"assigned", "ASSIGNED">>, <<"bought", "BOUGHT">>,
        <<"buy", "BUY">>, <<"buy to", "BUY TO">>,
        <<"buy to close", "BUY TO CLOSE">>,
        <<"buy to open", "BUY TO OPEN">>, <<"buys", "BUYS">>,
        <<"cash dividend", "CASH DIVIDEND">>, <<"dividend", "DIVIDEND">>,
        <<"exercised", "EXERCISED">>, <<"expired", "EXPIRED">>,
        <<"fee", "FEE">>, <<"foreign tax paid", "FOREIGN TAX PAID">>,
        <<"hold", "HOLD">>, <<"interest", "INTEREST">>,
        <<"journal", "JOURNAL">>, <<"margin interest", "MARGIN INTEREST">>,
        <<"merger", "MERGER">>,
        <<"qualified dividend", "QUALIFIED DIVIDEND">>,
        <<"reinvestment", "REINVESTMENT">>, <<"sell", "SELL">>,
        <<"sell  short", "SELL  SHORT">>, <<"sell short", "SELL SHORT">>,
        <<"sell to close", "SELL TO CLOSE">>,
        <<"sell to open", "SELL TO OPEN">>, <<"short", "SHORT">>,
        <<"short sell", "SHORT SELL">>, <<"spin-off", "SPIN-OFF">>,
        <<"stock dividend", "STOCK DIVIDEND">>,
        <<"stock merger", "STOCK MERGER">>,
        <<"stock split", "STOCK SPLIT">>, <<"tax", "TAX">>,
        <<"transfer", "TRANSFER">>
    }

PairedWith(pairs, text) == (CHOOSE pr \in pairs : pr[1] = text)[2]

Upper(tok) ==
    CASE tok = "c" -> "C" [] tok = "p" -> "P" [] tok = "call" -> "CALL"
      [] tok = "aaa" -> "AAA" [] tok = "bbb" -> "BBB"
      [] tok = "Buy" -> "BUY" [] tok = "Sell Short" -> "SELL SHORT"
      [] tok = "Dividend" -> "DIVIDEND" [] tok = "Hold" -> "HOLD"
      [] OTHER -> IF \E pr \in UpperPairs : pr[1] = tok THEN PairedWith(UpperPairs, tok) ELSE tok

\* OptionMetadata
OptionMetadata(underlying, strike, option_type, expiration) ==
    [underlying |-> underlying, strike |-> strike,
     option_type |-> option_type, expiration |-> expiration]

\* _parse_option_ticker: None, or Some(OptionMetadata)
ParseOptionTicker(tk) ==
    IF Len(tk) < 4 THEN None
    ELSE IF tk[2] \notin DateTokens THEN None
    ELSE IF tk[3] \notin FloatTokens THEN None
    ELSE IF Upper(tk[4]) \notin {"C", "P", "CALL", "PUT"} THEN None
    ELSE Some(OptionMetadata(tk[1], FloatOf(tk[3]),
                             IF Upper(tk[4]) \in {"C", "CALL"} THEN "CALL" ELSE "PUT",
                             DateOf(tk[2])))

\* ---------------------------------------------------- aggregator inputs
\* Longest list of stored open lots.
MaxLots == 2

\* The 8 s of wait_for in _fetch_current_price_for_position.
LookupTimeout == 8

\* The 10 s of wait_for around the aggregator in compute_user_regard_base_stats.
OuterTimeout == 10

Sides == {"LONG", "SHORT"}
AggTickers == {<<"AAA">>, <<"AAA", "01/10/2025", "50", "C">>,
               <<"BBB", "01/30/2025", "50", "P">>}
NowChoices == {20, 30}
\* The quantity, the price and the entry time of a stored lot are fixed by
\* its row: rows are not stored in entry order.
LotQuantityOf(i) == i
LotPriceOf(i) == 30 * i
LotEntryTimeOf(i) == 5 - i

LotChoices == [ticker : AggTickers, side : Sides]

\* The rows save_open_positions writes, as the aggregator reads them.
StoredLots(c) ==
    [i \in DOMAIN c |->
        [ticker |-> c[i].ticker, side |-> c[i].side, quantity |-> LotQuantityOf(i),
         entry_price |-> LotPriceOf(i), entry_time |-> LotEntryTimeOf(i)]]

\* Stored closed trades (rows of user_trades): none, or two of one ticker
\* stored out of entry order.
StoredTradeLists ==
    {<<>>,
     <<[ticker |-> <<"AAA">>, side |-> "LONG", entry_time |-> 5, exit_time |-> 7,
        entry_price |-> 20, exit_price |-> 30, quantity |-> 2,
        realized_pnl |-> 20, holding_period_seconds |-> 2],
       [ticker |-> <<"AAA">>, side |-> "SHORT", entry_time |-> 3, exit_time |-> 4,
        entry_price |-> 40, exit_price |-> 30, quantity |-> 1,
        realized_pnl |-> 10, holding_period_seconds |-> 1]>>}

\* What one call of yfinance does: the value it yields (None: no data or an
\* exception; the last Close otherwise, whatever float it is) and the seconds
\* it takes.
LookupOutcomes ==
    {[value |-> None, seconds |-> 1],
     [value |-> Some(0), seconds |-> 1],
     [value |-> Some(40), seconds |-> 1],
     [value |-> Some(70), seconds |-> 3],
     [value |-> Some(40), seconds |-> 9]}

\* ------------------------------------------------------------ aggregator
\* ClosedTrade (dataclass); entry_price and trade_return are quotients.
ClosedTrade(tk, side, et, xt, ep, xp, q, pnl, ret, hold) ==
    [ticker |-> tk, side |-> side, entry_time |-> et, exit_time |-> xt,
     entry_price |-> ep, exit_price |-> xp, quantity |-> q,
     realized_pnl |-> pnl, trade_return |-> ret,
     holding_period_seconds |-> hold]

\* A stored trade converted to a ClosedTrade.
ConvertTrade(t) ==
    LET trade_return ==
            IF t.side = "LONG"
            THEN IF t.entry_price > 0
                 THEN Rat(t.exit_price - t.entry_price, t.entry_price) ELSE RatInt(0)
            ELSE IF t.side = "SHORT"
            THEN IF t.entry_price > 0
                 THEN Rat(t.entry_price - t.exit_price, t.entry_price) ELSE RatInt(0)
            ELSE RatInt(0)
    IN ClosedTrade(t.ticker, t.side, t.entry_time, t.exit_time,
                   RatInt(t.entry_price), t.exit_price, t.quantity,
                   t.realized_pnl, trade_return, t.holding_period_seconds)

\* list.sort(key=entry_time): a stable sort.
RECURSIVE InsertByEntryTime(_, _)
InsertByEntryTime(s, x) ==
    IF s = <<>> THEN <<x>>
    ELSE IF Head(s).entry_time <= x.entry_time
         THEN <<Head(s)>> \o InsertByEntryTime(Tail(s), x)
    ELSE <<x>> \o s

RECURSIVE SortByEntryTime(_)
SortByEntryTime(s) ==
    IF s = <<>> THEN <<>>
    ELSE InsertByEntryTime(SortByEntryTime(SubSeq(s, 1, Len(s) - 1)), s[Len(s)])

\* The stored trades, ticker by ticker in insertion order, each ticker's
\* trades sorted by entry time and converted.
RECURSIVE ConvertTrades(_, _)
ConvertTrades(trades, tks) ==
    IF tks = <<>> THEN <<>>
    ELSE LET mine == SortByEntryTime(SelectSeq(trades, LAMBDA t : t.ticker = Head(tks)))
         IN [i \in 1..Len(mine) |-> ConvertTrade(mine[i])]
              \o ConvertTrades(trades, Tail(tks))

\* The keys (ticker, side) of the dict aggregated, in insertion order.
RECURSIVE GroupKeys(_, _)
GroupKeys(lots, seen) ==
    IF lots = <<>> THEN <<>>
    ELSE LET key == <<Head(lots).ticker, Head(lots).side>>
         IN IF key \in seen THEN GroupKeys(Tail(lots), seen)
            ELSE <<key>> \o GroupKeys(Tail(lots), seen \cup {key})

\* aggregated[(ticker, side)]
LotsOfGroup(lots, key) ==
    SelectSeq(lots, LAMBDA l : l.ticker = key[1] /\ l.side = key[2])

TotalQty(lots) == SumSeq([i \in 1..Len(lots) |-> lots[i].quantity])
TotalCost(lots) == SumSeq([i \in 1..Len(lots) |-> lots[i].quantity * lots[i].entry_price])

\* Variant: the entry time of the group's first lot.
EarliestTimeFirstLot(lots) ==
    IF lots = <<>> THEN None ELSE Some(lots[1].entry_time)

\* earliest_time (None for no lot)
EarliestTime(lots) ==
    IF lots = <<>> THEN None
    ELSE Some(CHOOSE t \in {lots[i].entry_time : i \in 1..Len(lots)} :
                \A i \in 1..Len(lots) : t <= lots[i].entry_time)

\* total_cost / total_qty if total_qty > 0 else 0.0
AvgEntryPrice(lots) ==
    IF TotalQty(lots) > 0 THEN Rat(TotalCost(lots), TotalQty(lots)) ELSE RatInt(0)

\* is_option and expiration < now
IsExpired(key, nw) ==
    LET option_meta == ParseOptionTicker(key[1])
    IN option_meta # None /\ option_meta[1].expiration < nw

\* Variant: the premium counts as lost on either side.
ExpiredTradeAlwaysLoss(key, lots, nw) ==
    LET option_meta == ParseOptionTicker(key[1])[1]
        entry_time == IF EarliestTime(lots) = None THEN nw ELSE EarliestTime(lots)[1]
    IN ClosedTrade(key[1], key[2], entry_time, option_meta.expiration,
                   AvgEntryPrice(lots), 0, TotalQty(lots), -TotalCost(lots),
                   RatInt(-1), option_meta.expiration - entry_time)

\* The synthetic ClosedTrade of an expired option group.
ExpiredTrade(key, lots, nw) ==
    LET option_meta == ParseOptionTicker(key[1])[1]
        total_cost == TotalCost(lots)
        entry_time == IF EarliestTime(lots) = None THEN nw ELSE EarliestTime(lots)[1]
    IN ClosedTrade(key[1], key[2], entry_time, option_meta.expiration,
                   AvgEntryPrice(lots), 0, TotalQty(lots),
                   IF key[2] = "LONG" THEN -total_cost ELSE total_cost,
                   IF key[2] = "LONG" THEN RatInt(-1) ELSE RatInt(1),
                   option_meta.expiration - entry_time)

\* What the awaited lookup returns: None after LookupTimeout seconds when
\* the call takes longer, else the call's value.
LookupResult(out) == IF out.seconds > LookupTimeout THEN None ELSE out.value

\* The seconds the await of the lookup lasts.
LookupWait(out) == Min(out.seconds, LookupTimeout)

\* current_price of a group, given what its lookup returned.
CurrentPrice(key, price) ==
    LET option_meta == ParseOptionTicker(key[1])
    IN IF option_meta # None
       THEN IF price # None /\ price # Some(0)
            THEN IF option_meta[1].option_type = "CALL"
                 THEN Some(Max(0, price[1] - option_meta[1].strike))
                 ELSE Some(Max(0, option_meta[1].strike - price[1]))
            ELSE None
       ELSE price

\* Variant: the LONG formula on either side.
UnrealizedPnlLongOnly(side, current_price, avg, qty) ==
    IF current_price # None /\ avg.num > 0 /\ side \in Sides
    THEN Some(RatMul(RatSub(RatInt(current_price[1]), avg), RatInt(qty)))
    ELSE None

\* unrealized_pnl: (current - avg) * qty for LONG, (avg - current) * qty for SHORT
UnrealizedPnl(side, current_price, avg, qty) ==
    IF current_price # None /\ avg.num > 0 /\ side \in Sides
    THEN IF side = "LONG"
         THEN Some(RatMul(RatSub(RatInt(current_price[1]), avg), RatInt(qty)))
         ELSE Some(RatMul(RatSub(avg, RatInt(current_price[1])), RatInt(qty)))
    ELSE None

\* unrealized_return: (current - avg) / avg for LONG, (avg - current) / avg for SHORT
UnrealizedReturn(side, current_price, avg) ==
    IF current_price # None /\ avg.num > 0 /\ side \in Sides
    THEN IF side = "LONG"
         THEN Some(RatDiv(RatSub(RatInt(current_price[1]), avg), avg))
         ELSE Some(RatDiv(RatSub(avg, RatInt(current_price[1])), avg))
    ELSE None

\* The OpenPosition (dataclass of user_positions.py) of a group, given what
\* its price lookup returned.
AggPosition(key, lots, price, nw) ==
    LET option_meta == ParseOptionTicker(key[1])
        avg == AvgEntryPrice(lots)
        current_price == CurrentPrice(key, price)
    IN [ticker |-> key[1], side |-> key[2], quantity |-> TotalQty(lots),
        avg_entry_price |-> avg,
        avg_entry_time |-> IF EarliestTime(lots) = None THEN nw ELSE EarliestTime(lots)[1],
        total_cost_basis |-> TotalCost(lots),
        current_price |-> current_price,
        unrealized_pnl |-> UnrealizedPnl(key[2], current_price, avg, TotalQty(lots)),
        unrealized_return |-> UnrealizedReturn(key[2], current_price, avg),
        is_option |-> option_meta # None,
        option_meta |-> option_meta,
        pricing_is_estimated |-> option_meta # None]

\* The caller's open_positions_list entry of an OpenPosition.
ListEntry(op) ==
    [ticker |-> op.ticker, side |-> op.side, quantity |-> op.quantity,
     entry_price |-> op.avg_entry_price, current_price |-> op.current_price,
     unrealized_pnl |-> op.unrealized_pnl,
     unrealized_return |-> op.unrealized_return,
     entry_time |-> op.avg_entry_time]

PositionsList(ops) == [i \in 1..Len(ops) |-> ListEntry(ops[i])]

\* The matcher is not running.
MatchIdle ==
    /\ actions = <<>>
    /\ pc = "idle"
    /\ tickerQueue = <<>>
    /\ ticker = ""
    /\ ticker_actions_list = <<>>
    /\ idx = 1
    /\ action = NoAction
    /\ remaining_quantity = 0
    /\ open_long_positions = <<>>
    /\ open_short_positions = <<>>
    /\ parsed_trades = <<>>
    /\ all_open_positions = <<>>
    /\ object_of = NoObjects

\* A caller is about to await build_user_positions_and_trades(user_id, trades).
InitAgg ==
    /\ MatchIdle
    /\ CsvIdle
    /\ RestIdle
    /\ caller \in {"report", "base_stats"}
    /\ now \in NowChoices
    /\ trades_data \in StoredTradeLists
    /\ \E n \in 0..MaxLots : \E c \in [1..n -> LotChoices] : stored_lots = StoredLots(c)
    /\ aggPc = "start"
    /\ groups = <<>>
    /\ g = 1
    /\ closed_trades = <<>>
    /\ open_positions = <<>>
    /\ elapsed = 0
    /\ lookups = <<>>
    /\ open_positions_list = None
    /\ first_run = None

\* The group the loop is at, and its lots.
CurrentKey == groups[g]
CurrentLots == LotsOfGroup(stored_lots, CurrentKey)

\* The ticker whose price the group's lookup asks for.
LookupTicker(key) ==
    LET option_meta == ParseOptionTicker(key[1])
    IN IF option_meta # None THEN <<option_meta[1].underlying>> ELSE key[1]

\* Variant: a failed lookup leaves the loop (break instead of a None price).
AfterPricedBreaks(nextG, price) == IF price = None THEN Len(groups) + 1 ELSE nextG

\* The loop index after a group has been priced.
AfterPriced(nextG, price) == nextG

\* Convert the stored trades, read the stored lots and group them by
\* (ticker, side).
StartAggregation ==
    /\ aggPc = "start"
    /\ closed_trades' = closed_trades
                           \o ConvertTrades(trades_data, TickerKeys(trades_data, {}))
    /\ groups' = GroupKeys(stored_lots, {})
    /\ g' = 1
    /\ aggPc' = "loop"
    /\ UNCHANGED <<matchVars, csvVars, restVars>>
    /\ UNCHANGED <<first_run, caller, now, trades_data, stored_lots, open_positions,
                   elapsed, lookups, open_positions_list>>

\* The select on user_open_positions raises: the aggregator returns the
\* closed trades and no open position.
FetchFails ==
    /\ aggPc = "start"
    /\ first_run = None
    /\ closed_trades' = closed_trades
                           \o ConvertTrades(trades_data, TickerKeys(trades_data, {}))
    /\ aggPc' = "returned"
    /\ open_positions_list' = Some(<<>>)
    /\ UNCHANGED <<matchVars, csvVars, restVars>>
    /\ UNCHANGED <<first_run, caller, now, trades_data, stored_lots, groups, g,
                   open_positions, elapsed, lookups>>

\* Variant: after the synthetic trade the loop body goes on and appends the
\* group's OpenPosition, unpriced.
PositionsAfterExpiryGoesOn(ops, key, lots, nw) == Append(ops, AggPosition(key, lots, None, nw))

\* continue  (an expired group adds nothing to open_positions)
PositionsAfterExpiry(ops, key, lots, nw) == ops

\* An expired option group: one synthetic closed trade, no open position.
ExpireGroup ==
    /\ aggPc = "loop"
    /\ g <= Len(groups)
    /\ IsExpired(CurrentKey, now)
    /\ closed_trades' = Append(closed_trades, ExpiredTrade(CurrentKey, CurrentLots, now))
    /\ open_positions' = PositionsAfterExpiry(open_positions, CurrentKey, CurrentLots, now)
    /\ g' = g + 1
    /\ UNCHANGED <<matchVars, csvVars, restVars>>
    /\ UNCHANGED <<first_run, caller, now, trades_data, stored_lots, aggPc, groups,
                   elapsed, lookups, open_positions_list>>

\* The price lookup is stable: in a run after the first, the lookup of a
\* group returns what the first run's lookup of that group returned.
StableLookup(out) ==
    first_run # None =>
        LookupResult(out) = first_run[1].lookups[Len(lookups) + 1].result

\* Any other group: await its price lookup, which returns within the
\* caller's deadline, and append its OpenPosition.
PriceGroup ==
    /\ aggPc = "loop"
    /\ g <= Len(groups)
    /\ ~IsExpired(CurrentKey, now)
    /\ \E out \in LookupOutcomes :
          /\ StableLookup(out)
          /\ caller = "base_stats" => elapsed + LookupWait(out) <= OuterTimeout
          /\ elapsed' = IF caller = "base_stats" THEN elapsed + LookupWait(out)
                        ELSE elapsed
          /\ lookups' = Append(lookups,
                [key |-> CurrentKey, ticker |-> LookupTicker(CurrentKey),
                 value |-> out.value, seconds |-> out.seconds,
                 result |-> LookupResult(out), cancelled |-> FALSE])
          /\ open_positions' = Append(open_positions,
                AggPosition(CurrentKey, CurrentLots, LookupResult(out), now))
          /\ g' = AfterPriced(g + 1, LookupResult(out))
    /\ UNCHANGED <<matchVars, csvVars, restVars>>
    /\ UNCHANGED <<first_run, caller, now, trades_data, stored_lots, aggPc, groups,
                   closed_trades, open_positions_list>>

\* The caller's 10 s deadline passes while a lookup is awaited: the
\* aggregator is cancelled and the caller takes the positions to be none.
DeadlinePasses ==
    /\ aggPc = "loop"
    /\ caller = "base_stats"
    /\ g <= Len(groups)
    /\ ~IsExpired(CurrentKey, now)
    /\ \E out \in LookupOutcomes :
          /\ elapsed + LookupWait(out) >= OuterTimeout
          /\ lookups' = Append(lookups,
                [key |-> CurrentKey, ticker |-> LookupTicker(CurrentKey),
                 value |-> out.value, seconds |-> out.seconds,
                 result |-> None, cancelled |-> TRUE])
    /\ elapsed' = OuterTimeout
    /\ aggPc' = "timed_out"
    /\ open_positions_list' = Some(<<>>)
    /\ UNCHANGED <<matchVars, csvVars, restVars>>
    /\ UNCHANGED <<first_run, caller, now, trades_data, stored_lots, groups, g,
                   closed_trades, open_positions>>

\* return closed_trades, open_positions; the caller lists the positions.
ReturnAgg ==
    /\ aggPc = "loop"
    /\ g > Len(groups)
    /\ aggPc' = "returned"
    /\ open_positions_list' = Some(PositionsList(open_positions))
    /\ UNCHANGED <<matchVars, csvVars, restVars>>
    /\ UNCHANGED <<first_run, caller, now, trades_data, stored_lots, groups, g,
                   closed_trades, open_positions, elapsed, lookups>>

\* Variant: a run goes on with the lists of the run before.
KeptList(old) == old

\* closed_trades = [] and open_positions = [] at the start of a run
NewList(old) == <<>>

\* The caller calls build_user_positions_and_trades once more, on the same
\* stored trades and lots and with the same now; the first run has read the
\* stored lots and has returned.
RunAgain ==
    /\ aggPc = "returned"
    /\ first_run = None
    /\ stored_lots = <<>> \/ groups # <<>>
    /\ first_run' = Some([closed_trades |-> closed_trades,
                          open_positions |-> open_positions,
                          lookups |-> lookups])
    /\ aggPc' = "start"
    /\ groups' = <<>>
    /\ g' = 1
    /\ closed_trades' = NewList(closed_trades)
    /\ open_positions' = NewList(open_positions)
    /\ elapsed' = 0
    /\ lookups' = <<>>
    /\ open_positions_list' = None
    /\ UNCHANGED <<matchVars, csvVars, restVars>>
    /\ UNCHANGED <<caller, now, trades_data, stored_lots>>

NextAgg ==
    \/ RunAgain
    \/ StartAggregation
    \/ FetchFails
    \/ ExpireGroup
    \/ PriceGroup
    \/ DeadlinePasses
    \/ ReturnAgg

SpecAgg == InitAgg /\ [][NextAgg]_vars

\* ------------------------------------------------- _parse_option_ticker
\* Longest ticker, in tokens.
MaxTokens == 5

\* Tokens a ticker is made of: a symbol, a date, a text that is no date, a
\* decimal, a text that is no decimal, type tokens and a letter that is none.
TickerTokens == {"AAA", "01/10/2025", "13/45/2025", "50", "x5", "c", "PUT", "Z"}

InitOpt ==
    /\ MatchIdle
    /\ AggIdle
    /\ CsvIdle
    /\ StoreIdle
    /\ UploadIdle
    /\ ScoreIdle
    /\ TextIdle
    /\ \E n \in 0..MaxTokens : opt_ticker \in [1..n -> TickerTokens]
    /\ opt_result = None
    /\ optPc = "call"

\* option_meta = _parse_option_ticker(ticker)
ParseTicker ==
    /\ optPc = "call"
    /\ opt_result' = ParseOptionTicker(opt_ticker)
    /\ optPc' = "done"
    /\ UNCHANGED <<matchVars, aggVars, csvVars, textVars, storeVars, uploadVars, scoreVars>>
    /\ UNCHANGED opt_ticker

NextOpt == ParseTicker

SpecOpt == InitOpt /\ [][NextOpt]_vars

\* ------------------------------------------------ parse_trade_history_csv
\* Longest input, in lines after the header.
MaxRows == 3

\* float('nan'): a value for which every comparison is false.  It is kept
\* apart from every number a cell of the input parses to.
NaN == -999

\* One share in quantity units (Eps is 0.0001 share).
Share == 10000

\* Header lines: none (empty input), an empty first line, a header that
\* lacks required columns, and two complete headers.
HeaderChoices ==
    {None, Some(<<>>), Some(<<"Date", "Action">>),
     Some(<<" DATE ", "action", "Symbol", "Quantity", "PRICE", "Fees & Comm">>),
     Some(<<"Date", "Action", "Symbol", "Quantity", "Price">>)}

\* field.lower().strip()
LowerStrip(field) ==
    CASE field \in {" DATE ", "Date"} -> "date"
      [] field \in {"action", "Action"} -> "action"
      [] field = "Symbol" -> "symbol"
      [] field = "Quantity" -> "quantity"
      [] field \in {"PRICE", "Price"} -> "price"
      [] field = "Fees & Comm" -> "fees & comm"
      [] OTHER -> field

RequiredColumns == {"date", "action", "symbol", "quantity", "price"}

\* column_map[field.lower().strip()] = field, over reader.fieldnames
ColumnMap(fieldnames) ==
    [name \in {LowerStrip(fieldnames[i]) : i \in 1..Len(fieldnames)} |->
        fieldnames[CHOOSE i \in 1..Len(fieldnames) :
            /\ LowerStrip(fieldnames[i]) = name
            /\ \A j \in 1..Len(fieldnames) :
                  LowerStrip(fieldnames[j]) = name => j <= i]]

\* A line after the header: blank (csv.DictReader passes over it), or a row
\* whose cells are Some(text), or None where the line has fewer cells than
\* the header.
Row(blank, c_date, c_action, c_symbol, c_quantity, c_price, c_fees) ==
    [blank |-> blank, date |-> c_date, action |-> c_action,
     symbol |-> c_symbol, quantity |-> c_quantity, price |-> c_price,
     fees |-> c_fees]

BlankLine == Row(TRUE, None, None, None, None, None, None)

\* Rows that become actions.
ValidRows ==
    {Row(FALSE, Some(d), Some(a), Some("aaa"), Some("2"), Some("10"), Some(f)) :
        d \in {"01/02/2025", "2025-01-03T10:00:00Z"},
        a \in {"Buy", "Sell Short"}, f \in {"", "(1.00)"}}
    \cup {Row(FALSE, Some("01/04/2025"), Some("SELL"), Some("aaa"), Some("1"),
              Some("12"), Some("1.00")),
          Row(FALSE, Some("01/04/2025"), Some("Buy"), Some(" bbb "), Some("1"),
              Some("12"), Some(""))}

\* Rows with one cell that is missing, not a trade, unparseable or not
\* positive; a line cut short after its second cell; a blank line.
OtherRows ==
    {Row(FALSE, Some(""), Some("Buy"), Some("aaa"), Some("2"), Some("10"), Some("")),
     Row(FALSE, Some("01/02/2025"), Some(""), Some("aaa"), Some("2"), Some("10"), Some("")),
     Row(FALSE, Some("01/02/2025"), Some("Buy"), Some(""), Some("2"), Some("10"), Some("")),
     Row(FALSE, Some("01/02/2025"), Some("Dividend"), Some(""), Some(""), Some(""), Some("")),
     Row(FALSE, Some("01/02/2025"), Some("Dividend"), Some("aaa"), Some(""), Some("10"), Some("")),
     Row(FALSE, Some("01/02/2025"), Some("Hold"), Some("aaa"), Some("2"), Some("10"), Some("")),
     Row(FALSE, Some("soon"), Some("Buy"), Some("aaa"), Some("2"), Some("10"), Some("")),
     Row(FALSE, Some("01/02/2025"), Some("Buy"), Some("aaa"), Some(""), Some("10"), Some("")),
     Row(FALSE, Some("01/02/2025"), Some("Buy"), Some("aaa"), Some("abc"), Some("10"), Some("")),
     Row(FALSE, Some("01/02/2025"), Some("Buy"), Some("aaa"), Some("0"), Some("10"), Some("")),
     Row(FALSE, Some("01/02/2025"), Some("Buy"), Some("aaa"), Some("(2)"), Some("10"), Some("")),
     Row(FALSE, Some("01/02/2025"), Some("Buy"), Some("aaa"), Some("nan"), Some("10"), Some("")),
     Row(FALSE, Some("01/02/2025"), Some("Buy"), Some("aaa"), Some("2"), Some("abc"), Some("")),
     Row(FALSE, Some("01/02/2025"), Some("Buy"), Some("aaa"), Some("2"), Some("0"), Some("")),
     Row(FALSE, Some("01/02/2025"), Some("Buy"), None, None, None, None),
     BlankLine}

CsvRowChoices == ValidRows \cup OtherRows

\* str.strip, str.lower and str.split(' as of ')[0] on the date strings below,
\* as pairs (text, result); a text in no pair is returned as it is.
DateStripPairs ==
    {
        <<" 01/02/2025 ", "01/02/2025">>,
        <<" 01/02/2025 AS OF 01/01/2025 ", "01/02/2025 AS OF 01/01/2025">>,
        <<" 01/02/2025 AS OF garbage ", "01/02/2025 AS OF garbage">>,
        <<" 01/02/2025 As Of 01/01/2025 ", "01/02/2025 As Of 01/01/2025">>,
        <<" 01/02/2025 As Of garbage ", "01/02/2025 As Of garbage">>,
        <<" 01/02/2025 as of 01/01/2025 ", "01/02/2025 as of 01/01/2025">>,
        <<" 01/02/2025 as of garbage ", "01/02/2025 as of garbage">>,
        <<" 01/04/2025 ", "01/04/2025">>,
        <<" 01/04/2025 AS OF 01/01/2025 ", "01/04/2025 AS OF 01/01/2025">>,
        <<" 01/04/2025 AS OF garbage ", "01/04/2025 AS OF garbage">>,
        <<" 01/04/2025 As Of 01/01/2025 ", "01/04/2025 As Of 01/01/2025">>,
        <<" 01/04/2025 As Of garbage ", "01/04/2025 As Of garbage">>,
        <<" 01/04/2025 as of 01/01/2025 ", "01/04/2025 as of 01/01/2025">>,
        <<" 01/04/2025 as of garbage ", "01/04/2025 as of garbage">>,
        <<" 2025-01-03T10:00:00Z ", "2025-01-03T10:00:00Z">>,
        <<" 2025-01-03T10:00:00Z AS OF 01/01/2025 ", "2025-01-03T10:00:00Z AS OF 01/01/2025">>,
        <<" 2025-01-03T10:00:00Z AS OF garbage ", "2025-01-03T10:00:00Z AS OF garbage">>,
        <<" 2025-01-03T10:00:00Z As Of 01/01/2025 ", "2025-01-03T10:00:00Z As Of 01/01/2025">>,
        <<" 2025-01-03T10:00:00Z As Of garbage ", "2025-01-03T10:00:00Z As Of garbage">>,
        <<" 2025-01-03T10:00:00Z as of 01/01/2025 ", "2025-01-03T10:00:00Z as of 01/01/2025">>,
        <<" 2025-01-03T10:00:00Z as of garbage ", "2025-01-03T10:00:00Z as of garbage">>,
        <<" garbage ", "garbage">>,
        <<" garbage AS OF 01/01/2025 ", "garbage AS OF 01/01/2025">>,
        <<" garbage AS OF garbage ", "garbage AS OF garbage">>,
        <<" garbage As Of 01/01/2025 ", "garbage As Of 01/01/2025">>,
        <<" garbage As Of garbage ", "garbage As Of garbage">>,
        <<" garbage as of 01/01/2025 ", "garbage as of 01/01/2025">>,
        <<" garbage as of garbage ", "garbage as of garbage">>
    }

DateLowerPairs ==
    {
        <<"01/02/2025 AS OF 01/01/2025", "01/02/2025 as of 01/01/2025">>,
        <<"01/02/2025 AS OF garbage", "01/02/2025 as of garbage">>,
        <<"01/02/2025 As Of 01/01/2025", "01/02/2025 as of 01/01/2025">>,
        <<"01/02/2025 As Of garbage", "01/02/2025 as of garbage">>,
        <<"01/04/2025 AS OF 01/01/2025", "01/04/2025 as of 01/01/2025">>,
        <<"01/04/2025 AS OF garbage", "01/04/2025 as of garbage">>,
        <<"01/04/2025 As Of 01/01/2025", "01/04/2025 as of 01/01/2025">>,
        <<"01/04/2025 As Of garbage", "01/04/2025 as of garbage">>,
        <<"2025-01-03T10:00:00Z", "2025-01-03t10:00:00z">>,
        <<"2025-01-03T10:00:00Z AS OF 01/01/2025", "2025-01-03t10:00:00z as of 01/01/2025">>,
        <<"2025-01-03T10:00:00Z AS OF garbage", "2025-01-03t10:00:00z as of garbage">>,
        <<"2025-01-03T10:00:00Z As Of 01/01/2025", "2025-01-03t10:00:00z as of 01/01/2025">>,
        <<"2025-01-03T10:00:00Z As Of garbage", "2025-01-03t10:00:00z as of garbage">>,
        <<"2025-01-03T10:00:00Z as of 01/01/2025", "2025-01-03t10:00:00z as of 01/01/2025">>,
        <<"2025-01-03T10:00:00Z as of garbage", "2025-01-03t10:00:00z as of garbage">>,
        <<"garbage AS OF 01/01/2025", "garbage as of 01/01/2025">>,
        <<"garbage AS OF garbage", "garbage as of garbage">>,
        <<"garbage As Of 01/01/2025", "garbage as of 01/01/2025">>,
        <<"garbage As Of garbage", "garbage as of garbage">>
    }

DateSplitPairs ==
    {
        <<"01/02/2025 as of 01/01/2025", "01/02/2025">>,
        <<"01/02/2025 as of garbage", "01/02/2025">>,
        <<"01/04/2025 as of 01/01/2025", "01/04/2025">>,
        <<"01/04/2025 as of garbage", "01/04/2025">>,
        <<"2025-01-03T10:00:00Z as of 01/01/2025", "2025-01-03T10:00:00Z">>,
        <<"2025-01-03T10:00:00Z as of garbage", "2025-01-03T10:00:00Z">>,
        <<"garbage as of 01/01/2025", "garbage">>,
        <<"garbage as of garbage", "garbage">>
    }

\* The lower-case strings that contain ' as of '.
MarkedStrings ==
    {
        "01/02/2025 as of 01/01/2025", "01/02/2025 as of garbage",
        "01/04/2025 as of 01/01/2025", "01/04/2025 as of garbage",
        "2025-01-03t10:00:00z as of 01/01/2025",
        "2025-01-03t10:00:00z as of garbage", "garbage as of 01/01/2025",
        "garbage as of garbage"
    }

\* str.lower
Lower(text) == IF \E pr \in DateLowerPairs : pr[1] = text THEN PairedWith(DateLowerPairs, text) ELSE text

\* ts_str.split(' as of ')[0]: the split compares letter case.
SplitAtMarker(text) == IF \E pr \in DateSplitPairs : pr[1] = text THEN PairedWith(DateSplitPairs, text) ELSE text

\* str.strip
Strip(text) ==
    IF text = " bbb " THEN "bbb"
    ELSE IF \E pr \in StripPairs : pr[1] = text THEN PairedWith(StripPairs, text)
    ELSE IF \E pr \in DateStripPairs : pr[1] = text THEN PairedWith(DateStripPairs, text)
    ELSE text

\* parse_timestamp: None, or Some(datetime); t is the day, aware says
\* whether the datetime carries a UTC offset.
ParseFormats(text) ==
    CASE text = "01/02/2025" -> Some([t |-> 2, aware |-> FALSE])
      [] text = "01/04/2025" -> Some([t |-> 4, aware |-> FALSE])
      [] text = "2025-01-03T10:00:00Z" -> Some([t |-> 3, aware |-> TRUE])
      [] OTHER -> None

\* parse_timestamp: an empty or blank string gives None; the string is
\* stripped; if its lower-case form contains ' as of ' it is split at
\* ' as of ' and the first part stripped; then the formats are tried.
ParseTimestamp(ts_str) ==
    IF ts_str = "" \/ Strip(ts_str) = "" THEN None
    ELSE LET stripped == Strip(ts_str)
             first_part == IF Lower(stripped) \in MarkedStrings THEN Strip(SplitAtMarker(stripped)) ELSE stripped
         IN ParseFormats(first_part)

\* Variant: the blanks around the string are kept.
ActionUpperUnstripped(action_str) == Upper(action_str)

\* action_upper = action_str.strip().upper()
ActionUpper(action_str) == Upper(Strip(action_str))

\* normalize_action: None, or Some((normalized_action, is_trade))
NormalizeAction(action_str) ==
    LET action_upper == ActionUpper(action_str)
    IN IF action_str = "" THEN None
       ELSE IF action_upper \in {"BUY", "SELL"}
            THEN Some([action |-> Some(action_upper), is_trade |-> TRUE])
       ELSE IF action_upper \in {"BUY TO OPEN", "BUY TO CLOSE"}
            THEN Some([action |-> Some("BUY"), is_trade |-> TRUE])
       ELSE IF action_upper \in {"SELL TO OPEN", "SELL TO CLOSE", "SELL SHORT", "SHORT"}
            THEN Some([action |-> Some("SELL"), is_trade |-> TRUE])
       ELSE Some([action |-> None, is_trade |-> FALSE])

\* parse_numeric: None, or Some(float(cleaned)); parentheses negate.
ParseNumeric(value) ==
    CASE Strip(value) = "0" -> Some(0)
      [] Strip(value) \in {"1", "1.00"} -> Some(1)
      [] Strip(value) = "2" -> Some(2)
      [] Strip(value) = "10" -> Some(10)
      [] Strip(value) = "12" -> Some(12)
      [] Strip(value) = "(2)" -> Some(-2)
      [] Strip(value) = "(1.00)" -> Some(-1)
      [] Strip(value) = "nan" -> Some(NaN)
      [] OTHER -> None

\* x <= 0 on floats
LeqZero(x) == x # NaN /\ x <= 0

\* The cell of a row under a column of the header.
CellOf(row, name) ==
    CASE name = "date" -> row.date
      [] name = "action" -> row.action
      [] name = "symbol" -> row.symbol
      [] name = "quantity" -> row.quantity
      [] name = "price" -> row.price
      [] OTHER -> row.fees

\* row.get(column_map.get(name, ''), '')
RowGet(cmap, row, name) ==
    IF name \in DOMAIN cmap THEN CellOf(row, name) ELSE Some("")

\* Reading the fields of the row raises: a cell read is None (None.strip()).
FieldsRaise(cmap, row) ==
    \/ \E name \in RequiredColumns : RowGet(cmap, row, name) = None
    \/ RowGet(cmap, row, "fees & comm") = None
    \/ RowGet(cmap, row, "fees & comm") = Some("") /\ RowGet(cmap, row, "fees") = None

\* What the loop body does with one row: "skip", or the TradeAction it
\* appends (quantities in quantity units, fees in fee units) with the
\* awareness of its date.
Skip == [kind |-> "skip"]
ParseRow(cmap, row) ==
    IF FieldsRaise(cmap, row) THEN Skip
    ELSE
    LET date_str == Strip(RowGet(cmap, row, "date")[1])
        action_str == Upper(Strip(RowGet(cmap, row, "action")[1]))
        symbol_str == Upper(Strip(RowGet(cmap, row, "symbol")[1]))
        quantity_str == Strip(RowGet(cmap, row, "quantity")[1])
        price_str == Strip(RowGet(cmap, row, "price")[1])
        fees_comm == Strip(RowGet(cmap, row, "fees & comm")[1])
        fees_str == IF fees_comm # "" THEN fees_comm
                    ELSE Strip(RowGet(cmap, row, "fees")[1])
        action_result == NormalizeAction(action_str)
        date == ParseTimestamp(date_str)
        quantity == ParseNumeric(quantity_str)
        price == ParseNumeric(price_str)
        fees == IF fees_str # "" THEN ParseNumeric(fees_str) ELSE Some(0)
    IN IF date_str = "" \/ action_str = "" \/ symbol_str = "" THEN Skip
       ELSE IF action_result = None \/ ~action_result[1].is_trade THEN Skip
       ELSE IF date = None THEN Skip
       ELSE IF quantity = None \/ LeqZero(quantity[1]) THEN Skip
       ELSE IF price = None \/ LeqZero(price[1]) THEN Skip
       ELSE [kind |-> "action",
             aware |-> date[1].aware,
             act |-> TradeAction(date[1].t, action_result[1].action[1], symbol_str,
                       IF quantity[1] = NaN THEN NaN ELSE quantity[1] * Share,
                       price[1],
                       IF fees = None THEN 0 ELSE fees[1] * FeeUnit,
                       IF quantity[1] = NaN THEN NaN ELSE price[1] * quantity[1] * Share,
                       "")]

\* A caller is about to call parse_trade_history_csv(csv_content).
InitCsv ==
    /\ MatchIdle
    /\ AggIdle
    /\ RestIdle
    /\ \E h \in HeaderChoices : \E n \in 0..MaxRows :
          \E rows \in [1..n -> CsvRowChoices] :
              csv_content = [header |-> h, rows |-> rows]
    /\ csvPc = "header"
    /\ column_map = <<>>
    /\ row_num = 1
    /\ skipped_count = 0
    /\ tzinfo = <<>>
    /\ raised = None

\* The lines the reader yields as rows: blank lines are passed over.
DataRows == SelectSeq(csv_content.rows, LAMBDA row : ~row.blank)

\* The header checks: no header row, empty header row, missing columns.
ReadHeader ==
    /\ csvPc = "header"
    /\ LET fieldnames == csv_content.header
           cmap == ColumnMap(fieldnames[1])
       IN IF fieldnames = None
          THEN /\ raised' = Some("CSV file appears to be empty or has no header row")
               /\ csvPc' = "raised"
               /\ UNCHANGED column_map
          ELSE IF fieldnames[1] = <<>>
          THEN /\ raised' = Some("CSV file has empty header row")
               /\ csvPc' = "raised"
               /\ UNCHANGED column_map
          ELSE IF RequiredColumns \ DOMAIN cmap # {}
          THEN /\ raised' = Some("Missing required columns")
               /\ csvPc' = "raised"
               /\ column_map' = cmap
          ELSE /\ csvPc' = "rows"
               /\ column_map' = cmap
               /\ UNCHANGED raised
    /\ UNCHANGED <<matchVars, aggVars, restVars>>
    /\ UNCHANGED <<csv_content, row_num, skipped_count, tzinfo>>

\* One iteration of the loop over the reader's rows, with its except clause.
ParseNextRow ==
    /\ csvPc = "rows"
    /\ row_num <= Len(DataRows)
    /\ LET out == ParseRow(column_map, DataRows[row_num])
       IN IF out.kind = "skip"
          THEN /\ skipped_count' = skipped_count + 1
               /\ UNCHANGED <<actions, tzinfo>>
          ELSE /\ actions' = Append(actions, out.act)
               /\ tzinfo' = Append(tzinfo, out.aware)
               /\ UNCHANGED skipped_count
    /\ row_num' = row_num + 1
    /\ UNCHANGED <<aggVars, restVars>>
    /\ UNCHANGED <<pc, tickerQueue, ticker, ticker_actions_list, idx, action,
                   remaining_quantity, open_long_positions,
                   open_short_positions, parsed_trades, all_open_positions,
                   object_of>>
    /\ UNCHANGED <<csv_content, csvPc, column_map, raised>>

\* if not actions: raise ValueError
NoValidActions ==
    /\ csvPc = "rows"
    /\ row_num > Len(DataRows)
    /\ actions = <<>>
    /\ raised' = Some("No valid trade actions found in CSV file")
    /\ csvPc' = "raised"
    /\ UNCHANGED <<matchVars, aggVars, restVars>>
    /\ UNCHANGED <<csv_content, column_map, row_num, skipped_count, tzinfo>>

\* match_trades sorts the actions of a ticker by date; comparing an
\* offset-aware datetime with an offset-naive one raises TypeError.
SortRaises ==
    \E i, j \in 1..Len(actions) :
        actions[i].ticker = actions[j].ticker /\ tzinfo[i] # tzinfo[j]

\* parsed_trades, open_positions = match_trades(actions): the call begins,
\* or the TypeError of its sort leaves parse_trade_history_csv as
\* ValueError("Failed to parse CSV: ...").
CallMatchTrades ==
    /\ csvPc = "rows"
    /\ row_num > Len(DataRows)
    /\ actions # <<>>
    /\ IF SortRaises
       THEN /\ raised' = Some("Failed to parse CSV")
            /\ csvPc' = "raised"
            /\ UNCHANGED <<pc, tickerQueue>>
       ELSE /\ pc' = "ticker"
            /\ tickerQueue' = TickerKeys(actions, {})
            /\ csvPc' = "match"
            /\ UNCHANGED raised
    /\ UNCHANGED <<aggVars, restVars>>
    /\ UNCHANGED <<actions, ticker, ticker_actions_list, idx, action,
                   remaining_quantity, open_long_positions,
                   open_short_positions, parsed_trades, all_open_positions,
                   object_of>>
    /\ UNCHANGED <<csv_content, column_map, row_num, skipped_count, tzinfo>>

\* return parsed_trades, open_positions, skipped_count
ReturnCsv ==
    /\ csvPc = "match"
    /\ pc = "done"
    /\ csvPc' = "returned"
    /\ UNCHANGED <<matchVars, aggVars, restVars>>
    /\ UNCHANGED <<csv_content, column_map, row_num, skipped_count, tzinfo, raised>>

NextCsv ==
    \/ ReadHeader
    \/ ParseNextRow
    \/ NoValidActions
    \/ CallMatchTrades
    \/ Next
    \/ ReturnCsv

SpecCsv == InitCsv /\ [][NextCsv]_vars

\* ---------------------------------------------------- save_open_positions

\* Most lots one save is given.
MaxPositions == 2

\* The open lots a save may be given, and a row left by an earlier upload.
SaveLots == {"L1", "L2"}

EarlierLot == "L0"

\* The open_positions arguments: lists of distinct lots.
SaveArgs == {a \in UNION {[1..n -> SaveLots] : n \in 0..MaxPositions} : \A i, j \in 1..Len(a) : a[i] = a[j] => i = j}

\* What one store operation does: it executes or it raises.  The table
\* check may also raise the error of a missing table.
StoreOutcomes == {"ok", "raises"}

CheckOutcomes == {"ok", "PGRST", "raises"}

\* The call returns: it joins the history of returned calls.
SaveReturns(p, pcs) ==
    /\ savePc' = [pcs EXCEPT ![p] = "done"]
    /\ completed' = Append(completed, p)

\* The select on user_open_positions that precedes every write.  A missing
\* table makes the call return; any other exception reaches the outer
\* handler, which logs it and returns as well.
CheckTable(p) ==
    /\ savePc[p] = "check"
    /\ \E out \in CheckOutcomes :
         IF out = "ok"
         THEN /\ savePc' = [savePc EXCEPT ![p] = "delete"]
              /\ UNCHANGED completed
         ELSE SaveReturns(p, savePc)
    /\ UNCHANGED <<user_open_positions, save_arg>>
    /\ UNCHANGED <<matchVars, aggVars, csvVars, textVars, optVars, uploadVars, scoreVars>>

\* The delete of the user's rows.  Its exception is logged and the call goes
\* on; with no lots to save the call returns here.
DeleteExisting(p) ==
    /\ savePc[p] = "delete"
    /\ \E out \in StoreOutcomes :
         user_open_positions' = IF out = "ok" THEN <<>> ELSE user_open_positions
    /\ IF save_arg[p] = <<>>
       THEN SaveReturns(p, savePc)
       ELSE /\ savePc' = [savePc EXCEPT ![p] = "insert"]
            /\ UNCHANGED completed
    /\ UNCHANGED save_arg
    /\ UNCHANGED <<matchVars, aggVars, csvVars, textVars, optVars, uploadVars, scoreVars>>

\* The insert of one row per lot.  Its exception reaches the outer handler.
InsertPositions(p) ==
    /\ savePc[p] = "insert"
    /\ \E out \in StoreOutcomes :
         user_open_positions' = IF out = "ok" THEN user_open_positions \o save_arg[p] ELSE user_open_positions
    /\ SaveReturns(p, savePc)
    /\ UNCHANGED save_arg
    /\ UNCHANGED <<matchVars, aggVars, csvVars, textVars, optVars, uploadVars, scoreVars>>

\* One or two saves for the same user are under way; the table holds
\* nothing or the row of an earlier upload.
InitSave ==
    /\ MatchIdle
    /\ AggIdle
    /\ CsvIdle
    /\ OptIdle
    /\ UploadIdle
    /\ ScoreIdle
    /\ TextIdle
    /\ user_open_positions \in {<<>>, <<EarlierLot>>}
    /\ savePc \in {f \in [Savers -> {"idle", "check"}] : f[1] = "check"}
    /\ save_arg \in {f \in [Savers -> SaveArgs] : \A p \in Savers : savePc[p] = "idle" => f[p] = <<>>}
    /\ completed = <<>>

NextSave ==
    \/ \E p \in Savers : CheckTable(p)
    \/ \E p \in Savers : DeleteExisting(p)
    \/ \E p \in Savers : InsertPositions(p)

SpecSave == InitSave /\ [][NextSave]_vars

\* --------------------------------------------------- upload_trade_history

\* Most closed trades one upload brings.
MaxTrades == 2

\* What one call of get_regard_score_at_date meets: an exception, no row
\* within the window, or a row with its score.
Scores == {0, 60}

ScoreLookups == {<<"raises">>, <<"none">>} \cup {<<"found", sc>> : sc \in Scores}

\* get_regard_score_at_date: every exception is logged and becomes None.
GetRegardScoreAtDate(out) == IF out[1] = "found" THEN Some(out[2]) ELSE None

\* A closed trade as the parser returns it: both scores unknown.
UploadedTrade(i) == [id |-> i, regard_score_at_entry |-> None, regard_score_at_exit |-> None]

\* A row of user_trades left by an earlier upload.
EarlierTrade == [id |-> 0, regard_score_at_entry |-> None, regard_score_at_exit |-> None]

\* trade_data: the row built for a trade; a score that is None is left out
\* of the row, which the table reads as NULL.
TradeData(trade) == [id |-> trade.id, regard_score_at_entry |-> trade.regard_score_at_entry, regard_score_at_exit |-> trade.regard_score_at_exit]

BatchData == [i \in 1..Len(upload_trades) |-> TradeData(upload_trades[i])]

\* Where upload_trade_history goes on after the enrichment step returned,
\* and after it timed out or raised.
AfterEnrichment == "delete_trades"

AfterEnrichmentErrorAborts == "failed"
AfterEnrichmentError == "delete_trades"

\* The parsing step has returned one or more closed trades and the open
\* lots; the tables hold nothing or the rows of an earlier upload.
InitUpload ==
    /\ MatchIdle
    /\ AggIdle
    /\ CsvIdle
    /\ OptIdle
    /\ ScoreIdle
    /\ TextIdle
    /\ upPc = "enrich"
    /\ \E n \in 1..MaxTrades : upload_trades = [i \in 1..n |-> UploadedTrade(i)]
    /\ upload_lots \in {a \in SaveArgs : Len(a) <= 1}
    /\ score_lookups = [i \in 1..Len(upload_trades) |-> None]
    /\ user_trades \in {<<>>, <<EarlierTrade>>}
    /\ imported_count = 0
    /\ http_error = None
    /\ user_open_positions \in {<<>>, <<EarlierLot>>}
    /\ stored_before = Some([trades |-> user_trades, positions |-> user_open_positions])
    /\ savePc = [p \in Savers |-> "idle"]
    /\ save_arg = [p \in Savers |-> <<>>]
    /\ completed = <<>>

\* enrich_single_trade: the scores still unknown are looked up and set.
\* The trades of a batch are enriched concurrently, in any order.
EnrichSingleTrade ==
    /\ upPc = "enrich"
    /\ \E i \in 1..Len(upload_trades), entry_out \in ScoreLookups, exit_out \in ScoreLookups :
         LET trade == upload_trades[i]
             needs_entry == trade.regard_score_at_entry = None
             needs_exit == trade.regard_score_at_exit = None
             entry_score == IF needs_entry THEN GetRegardScoreAtDate(entry_out) ELSE trade.regard_score_at_entry
             exit_score == IF needs_exit THEN GetRegardScoreAtDate(exit_out) ELSE trade.regard_score_at_exit
         IN /\ score_lookups[i] = None
            /\ upload_trades' = [upload_trades EXCEPT ![i] = [trade EXCEPT !.regard_score_at_entry = entry_score, !.regard_score_at_exit = exit_score]]
            /\ score_lookups' = [score_lookups EXCEPT ![i] = Some(<<entry_out, exit_out>>)]
    /\ UNCHANGED <<upPc, upload_lots, stored_before, user_trades, imported_count, http_error>>
    /\ UNCHANGED <<matchVars, aggVars, csvVars, textVars, optVars, storeVars, scoreVars>>

\* enrich_trades_with_regard_scores returns the list of the same trades.
EnrichReturns ==
    /\ upPc = "enrich"
    /\ \A i \in 1..Len(upload_trades) : score_lookups[i] # None
    /\ upPc' = AfterEnrichment
    /\ UNCHANGED <<upload_trades, upload_lots, stored_before, score_lookups, user_trades, imported_count, http_error>>
    /\ UNCHANGED <<matchVars, aggVars, csvVars, textVars, optVars, storeVars, scoreVars>>

\* The enrichment does not return: the 60 s of asyncio.wait_for pass and it
\* is cancelled where it stands, or it raises.  Either handler logs a
\* warning; the trades keep what was set so far and the upload goes on.
EnrichFails ==
    /\ upPc = "enrich"
    /\ upPc' = AfterEnrichmentError
    /\ UNCHANGED <<upload_trades, upload_lots, stored_before, score_lookups, user_trades, imported_count, http_error>>
    /\ UNCHANGED <<matchVars, aggVars, csvVars, textVars, optVars, storeVars, scoreVars>>

\* The user's rows of user_trades are deleted; a failing delete is logged.
\* get_supabase_admin stands outside that try: its exception reaches the
\* handler's last except clause.
DeleteTrades ==
    /\ upPc = "delete_trades"
    /\ \E out \in StoreOutcomes \cup {"no_client"} :
         /\ user_trades' = IF out = "ok" THEN <<>> ELSE user_trades
         /\ upPc' = IF out = "no_client" THEN "failed" ELSE "save_positions"
         /\ http_error' = IF out = "no_client" THEN Some("Internal server error") ELSE http_error
    /\ UNCHANGED <<upload_trades, upload_lots, stored_before, score_lookups, imported_count>>
    /\ UNCHANGED <<matchVars, aggVars, csvVars, textVars, optVars, storeVars, scoreVars>>

\* save_open_positions is called with the open lots of the parse.
CallSaveOpenPositions ==
    /\ upPc = "save_positions"
    /\ upPc' = "saving"
    /\ savePc' = [savePc EXCEPT ![1] = "check"]
    /\ save_arg' = [save_arg EXCEPT ![1] = upload_lots]
    /\ UNCHANGED <<user_open_positions, completed>>
    /\ UNCHANGED <<upload_trades, upload_lots, stored_before, score_lookups, user_trades, imported_count, http_error>>
    /\ UNCHANGED <<matchVars, aggVars, csvVars, textVars, optVars, scoreVars>>

\* save_open_positions has returned; the select on user_trades follows.  Its
\* exception ends the upload with status 500.
CheckTradesTable ==
    /\ upPc = "saving"
    /\ savePc[1] = "done"
    /\ \E out \in StoreOutcomes :
         /\ upPc' = IF out = "ok" THEN "insert" ELSE "failed"
         /\ http_error' = IF out = "ok" THEN http_error ELSE Some("Database table error")
    /\ UNCHANGED <<upload_trades, upload_lots, stored_before, score_lookups, user_trades, imported_count>>
    /\ UNCHANGED <<matchVars, aggVars, csvVars, textVars, optVars, storeVars, scoreVars>>

\* The trades are inserted in batches of 500, here one batch.  An insert
\* that raises or returns no data is logged; with no row imported the upload
\* ends with status 500.
InsertBatch ==
    /\ upPc = "insert"
    /\ \E out \in StoreOutcomes \cup {"no_data"} :
         /\ user_trades' = IF out = "ok" THEN user_trades \o BatchData ELSE user_trades
         /\ imported_count' = IF out = "ok" THEN imported_count + Len(BatchData) ELSE imported_count
    /\ upPc' = IF imported_count' = 0 THEN "failed" ELSE "analyze"
    /\ http_error' = IF imported_count' = 0 THEN Some("Failed to import any trades") ELSE http_error
    /\ UNCHANGED <<upload_trades, upload_lots, stored_before, score_lookups>>
    /\ UNCHANGED <<matchVars, aggVars, csvVars, textVars, optVars, storeVars, scoreVars>>

\* The user's score is recomputed; whether that succeeds, times out or
\* raises, the response reports success with the imported count.
RecomputeAndRespond ==
    /\ upPc = "analyze"
    /\ upPc' = "done"
    /\ UNCHANGED <<upload_trades, upload_lots, stored_before, score_lookups, user_trades, imported_count, http_error>>
    /\ UNCHANGED <<matchVars, aggVars, csvVars, textVars, optVars, storeVars, scoreVars>>

NextUpload ==
    \/ EnrichSingleTrade
    \/ EnrichReturns
    \/ EnrichFails
    \/ DeleteTrades
    \/ CallSaveOpenPositions
    \/ CheckTable(1)
    \/ DeleteExisting(1)
    \/ InsertPositions(1)
    \/ CheckTradesTable
    \/ InsertBatch
    \/ RecomputeAndRespond

SpecUpload == InitUpload /\ [][NextUpload]_vars

\* -------------------------------------------------- calculate_ragard_score

\* The scorer clamps its score to 0..MaxScore.
MaxScore == 100

\* Scores are held in tenths, so that int() has something to cut off.
Tenth == 10

Symbols == {"TEST", "GME"}

\* What get_regard_score_for_symbol does: it returns a dict whose
\* regard_score is an int of 0..MaxScore or None, it returns something int()
\* cuts (a float from another scorer), or it raises.
ScorerOutcomes == {<<"score", Tenth * sc>> : sc \in 0..MaxScore} \cup {<<"score", 755>>, <<"score", 499>>, <<"no_score">>, <<"raises">>}

\* int(score) for a score that is not negative: the fraction is cut off.
IntOf(score) == score \div Tenth

\* What calculate_ragard_score returns when there is no score or the scorer
\* raised.
OnFailurePlaceholder == Some(50)
OnFailure == None

InitScore ==
    /\ MatchIdle
    /\ AggIdle
    /\ CsvIdle
    /\ OptIdle
    /\ StoreIdle
    /\ UploadIdle
    /\ TextIdle
    /\ symbol \in Symbols
    /\ scorer_calls = <<>>
    /\ scorer_outcome = None
    /\ score_result = None
    /\ score_raised = FALSE
    /\ scorePc = "start"

\* calculate_ragard_score: one awaited call of the scorer inside try; every
\* Exception is logged and answered with None.
CalculateRagardScore ==
    /\ scorePc = "start"
    /\ \E out \in ScorerOutcomes :
         /\ scorer_calls' = Append(scorer_calls, symbol)
         /\ scorer_outcome' = Some(out)
         /\ score_result' = IF out[1] = "score" THEN Some(IntOf(out[2])) ELSE OnFailure
    /\ score_raised' = FALSE
    /\ scorePc' = "done"
    /\ UNCHANGED symbol
    /\ UNCHANGED <<matchVars, aggVars, csvVars, textVars, optVars, storeVars, uploadVars>>

NextScore == CalculateRagardScore

SpecScore == InitScore /\ [][NextScore]_vars

\* --------------------------------------------------------- normalize_action

\* The action vocabulary: the phrases that are trades, the phrases the code
\* lists as no trades, and phrases it does not know.
BuyPhrases == {"BUY", "BUY TO OPEN", "BUY TO CLOSE"}

SellPhrases == {"SELL", "SELL TO OPEN", "SELL TO CLOSE", "SELL SHORT", "SHORT"}

SkipPhrases ==
    {
        "QUALIFIED DIVIDEND", "CASH DIVIDEND", "DIVIDEND",
        "STOCK DIVIDEND", "STOCK SPLIT", "STOCK MERGER", "MERGER",
        "SPIN-OFF", "FOREIGN TAX PAID", "TAX", "EXPIRED", "ASSIGNED",
        "EXERCISED", "JOURNAL", "TRANSFER", "ADJUSTMENT", "FEE",
        "INTEREST", "MARGIN INTEREST"
    }

UnknownPhrases == {"HOLD", "REINVESTMENT", "BOUGHT", "BUYS", "SELL  SHORT", "BUY TO", "SHORT SELL"}

\* The action strings: each phrase in upper case, lower case and title case,
\* bare or with a blank on either side, as (phrase, casing, padding, string).
ActionStrings ==
    {
        <<"BUY", "upper", "none", "BUY">>,
        <<"BUY", "upper", "spaces", " BUY ">>,
        <<"BUY", "lower", "none", "buy">>,
        <<"BUY", "lower", "spaces", " buy ">>,
        <<"BUY", "title", "none", "Buy">>,
        <<"BUY", "title", "spaces", " Buy ">>,
        <<"BUY TO OPEN", "upper", "none", "BUY TO OPEN">>,
        <<"BUY TO OPEN", "upper", "spaces", " BUY TO OPEN ">>,
        <<"BUY TO OPEN", "lower", "none", "buy to open">>,
        <<"BUY TO OPEN", "lower", "spaces", " buy to open ">>,
        <<"BUY TO OPEN", "title", "none", "Buy To Open">>,
        <<"BUY TO OPEN", "title", "spaces", " Buy To Open ">>,
        <<"BUY TO CLOSE", "upper", "none", "BUY TO CLOSE">>,
        <<"BUY TO CLOSE", "upper", "spaces", " BUY TO CLOSE ">>,
        <<"BUY TO CLOSE", "lower", "none", "buy to close">>,
        <<"BUY TO CLOSE", "lower", "spaces", " buy to close ">>,
        <<"BUY TO CLOSE", "title", "none", "Buy To Close">>,
        <<"BUY TO CLOSE", "title", "spaces", " Buy To Close ">>,
        <<"SELL", "upper", "none", "SELL">>,
        <<"SELL", "upper", "spaces", " SELL ">>,
        <<"SELL", "lower", "none", "sell">>,
        <<"SELL", "lower", "spaces", " sell ">>,
        <<"SELL", "title", "none", "Sell">>,
        <<"SELL", "title", "spaces", " Sell ">>,
        <<"SELL TO OPEN", "upper", "none", "SELL TO OPEN">>,
        <<"SELL TO OPEN", "upper", "spaces", " SELL TO OPEN ">>,
        <<"SELL TO OPEN", "lower", "none", "sell to open">>,
        <<"SELL TO OPEN", "lower", "spaces", " sell to open ">>,
        <<"SELL TO OPEN", "title", "none", "Sell To Open">>,
        <<"SELL TO OPEN", "title", "spaces", " Sell To Open ">>,
        <<"SELL TO CLOSE", "upper", "none", "SELL TO CLOSE">>,
        <<"SELL TO CLOSE", "upper", "spaces", " SELL TO CLOSE ">>,
        <<"SELL TO CLOSE", "lower", "none", "sell to close">>,
        <<"SELL TO CLOSE", "lower", "spaces", " sell to close ">>,
        <<"SELL TO CLOSE", "title", "none", "Sell To Close">>,
        <<"SELL TO CLOSE", "title", "spaces", " Sell To Close ">>,
        <<"SELL SHORT", "upper", "none", "SELL SHORT">>,
        <<"SELL SHORT", "upper", "spaces", " SELL SHORT ">>,
        <<"SELL SHORT", "lower", "none", "sell short">>,
        <<"SELL SHORT", "lower", "spaces", " sell short ">>,
        <<"SELL SHORT", "title", "none", "Sell Short">>,
        <<"SELL SHORT", "title", "spaces", " Sell Short ">>,
        <<"SHORT", "upper", "none", "SHORT">>,
        <<"SHORT", "upper", "spaces", " SHORT ">>,
        <<"SHORT", "lower", "none", "short">>,
        <<"SHORT", "lower", "spaces", " short ">>,
        <<"SHORT", "title", "none", "Short">>,
        <<"SHORT", "title", "spaces", " Short ">>,
        <<"QUALIFIED DIVIDEND", "upper", "none", "QUALIFIED DIVIDEND">>,
        <<"QUALIFIED DIVIDEND", "upper", "spaces", " QUALIFIED DIVIDEND ">>,
        <<"QUALIFIED DIVIDEND", "lower", "none", "qualified dividend">>,
        <<"QUALIFIED DIVIDEND", "lower", "spaces", " qualified dividend ">>,
        <<"QUALIFIED DIVIDEND", "title", "none", "Qualified Dividend">>,
        <<"QUALIFIED DIVIDEND", "title", "spaces", " Qualified Dividend ">>,
        <<"CASH DIVIDEND", "upper", "none", "CASH DIVIDEND">>,
        <<"CASH DIVIDEND", "upper", "spaces", " CASH DIVIDEND ">>,
        <<"CASH DIVIDEND", "lower", "none", "cash dividend">>,
        <<"CASH DIVIDEND", "lower", "spaces", " cash dividend ">>,
        <<"CASH DIVIDEND", "title", "none", "Cash Dividend">>,
        <<"CASH DIVIDEND", "title", "spaces", " Cash Dividend ">>,
        <<"DIVIDEND", "upper", "none", "DIVIDEND">>,
        <<"DIVIDEND", "upper", "spaces", " DIVIDEND ">>,
        <<"DIVIDEND", "lower", "none", "dividend">>,
        <<"DIVIDEND", "lower", "spaces", " dividend ">>,
        <<"DIVIDEND", "title", "none", "Dividend">>,
        <<"DIVIDEND", "title", "spaces", " Dividend ">>,
        <<"STOCK DIVIDEND", "upper", "none", "STOCK DIVIDEND">>,
        <<"STOCK DIVIDEND", "upper", "spaces", " STOCK DIVIDEND ">>,
        <<"STOCK DIVIDEND", "lower", "none", "stock dividend">>,
        <<"STOCK DIVIDEND", "lower", "spaces", " stock dividend ">>,
        <<"STOCK DIVIDEND", "title", "none", "Stock Dividend">>,
        <<"STOCK DIVIDEND", "title", "spaces", " Stock Dividend ">>,
        <<"STOCK SPLIT", "upper", "none", "STOCK SPLIT">>,
        <<"STOCK SPLIT", "upper", "spaces", " STOCK SPLIT ">>,
        <<"STOCK SPLIT", "lower", "none", "stock split">>,
        <<"STOCK SPLIT", "lower", "spaces", " stock split ">>,
        <<"STOCK SPLIT", "title", "none", "Stock Split">>,
        <<"STOCK SPLIT", "title", "spaces", " Stock Split ">>,
        <<"STOCK MERGER", "upper", "none", "STOCK MERGER">>,
        <<"STOCK MERGER", "upper", "spaces", " STOCK MERGER ">>,
        <<"STOCK MERGER", "lower", "none", "stock merger">>,
        <<"STOCK MERGER", "lower", "spaces", " stock merger ">>,
        <<"STOCK MERGER", "title", "none", "Stock Merger">>,
        <<"STOCK MERGER", "title", "spaces", " Stock Merger ">>,
        <<"MERGER", "upper", "none", "MERGER">>,
        <<"MERGER", "upper", "spaces", " MERGER ">>,
        <<"MERGER", "lower", "none", "merger">>,
        <<"MERGER", "lower", "spaces", " merger ">>,
        <<"MERGER", "title", "none", "Merger">>,
        <<"MERGER", "title", "spaces", " Merger ">>,
        <<"SPIN-OFF", "upper", "none", "SPIN-OFF">>,
        <<"SPIN-OFF", "upper", "spaces", " SPIN-OFF ">>,
        <<"SPIN-OFF", "lower", "none", "spin-off">>,
        <<"SPIN-OFF", "lower", "spaces", " spin-off ">>,
        <<"SPIN-OFF", "title", "none", "Spin-Off">>,
        <<"SPIN-OFF", "title", "spaces", " Spin-Off ">>,
        <<"FOREIGN TAX PAID", "upper", "none", "FOREIGN TAX PAID">>,
        <<"FOREIGN TAX PAID", "upper", "spaces", " FOREIGN TAX PAID ">>,
        <<"FOREIGN TAX PAID", "lower", "none", "foreign tax paid">>,
        <<"FOREIGN TAX PAID", "lower", "spaces", " foreign tax paid ">>,
        <<"FOREIGN TAX PAID", "title", "none", "Foreign Tax Paid">>,
        <<"FOREIGN TAX PAID", "title", "spaces", " Foreign Tax Paid ">>,
        <<"TAX", "upper", "none", "TAX">>,
        <<"TAX", "upper", "spaces", " TAX ">>,
        <<"TAX", "lower", "none", "tax">>,
        <<"TAX", "lower", "spaces", " tax ">>,
        <<"TAX", "title", "none", "Tax">>,
        <<"TAX", "title", "spaces", " Tax ">>,
        <<"EXPIRED", "upper", "none", "EXPIRED">>,
        <<"EXPIRED", "upper", "spaces", " EXPIRED ">>,
        <<"EXPIRED", "lower", "none", "expired">>,
        <<"EXPIRED", "lower", "spaces", " expired ">>,
        <<"EXPIRED", "title", "none", "Expired">>,
        <<"EXPIRED", "title", "spaces", " Expired ">>,
        <<"ASSIGNED", "upper", "none", "ASSIGNED">>,
        <<"ASSIGNED", "upper", "spaces", " ASSIGNED ">>,
        <<"ASSIGNED", "lower", "none", "assigned">>,
        <<"ASSIGNED", "lower", "spaces", " assigned ">>,
        <<"ASSIGNED", "title", "none", "Assigned">>,
        <<"ASSIGNED", "title", "spaces", " Assigned ">>,
        <<"EXERCISED", "upper", "none", "EXERCISED">>,
        <<"EXERCISED", "upper", "spaces", " EXERCISED ">>,
        <<"EXERCISED", "lower", "none", "exercised">>,
        <<"EXERCISED", "lower", "spaces", " exercised ">>,
        <<"EXERCISED", "title", "none", "Exercised">>,
        <<"EXERCISED", "title", "spaces", " Exercised ">>,
        <<"JOURNAL", "upper", "none", "JOURNAL">>,
        <<"JOURNAL", "upper", "spaces", " JOURNAL ">>,
        <<"JOURNAL", "lower", "none", "journal">>,
        <<"JOURNAL", "lower", "spaces", " journal ">>,
        <<"JOURNAL", "title", "none", "Journal">>,
        <<"JOURNAL", "title", "spaces", " Journal ">>,
        <<"TRANSFER", "upper", "none", "TRANSFER">>,
        <<"TRANSFER", "upper", "spaces", " TRANSFER ">>,
        <<"TRANSFER", "lower", "none", "transfer">>,
        <<"TRANSFER", "lower", "spaces", " transfer ">>,
        <<"TRANSFER", "title", "none", "Transfer">>,
        <<"TRANSFER", "title", "spaces", " Transfer ">>,
        <<"ADJUSTMENT", "upper", "none", "ADJUSTMENT">>,
        <<"ADJUSTMENT", "upper", "spaces", " ADJUSTMENT ">>,
        <<"ADJUSTMENT", "lower", "none", "adjustment">>,
        <<"ADJUSTMENT", "lower", "spaces", " adjustment ">>,
        <<"ADJUSTMENT", "title", "none", "Adjustment">>,
        <<"ADJUSTMENT", "title", "spaces", " Adjustment ">>,
        <<"FEE", "upper", "none", "FEE">>,
        <<"FEE", "upper", "spaces", " FEE ">>,
        <<"FEE", "lower", "none", "fee">>,
        <<"FEE", "lower", "spaces", " fee ">>,
        <<"FEE", "title", "none", "Fee">>,
        <<"FEE", "title", "spaces", " Fee ">>,
        <<"INTEREST", "upper", "none", "INTEREST">>,
        <<"INTEREST", "upper", "spaces", " INTEREST ">>,
        <<"INTEREST", "lower", "none", "interest">>,
        <<"INTEREST", "lower", "spaces", " interest ">>,
        <<"INTEREST", "title", "none", "Interest">>,
        <<"INTEREST", "title", "spaces", " Interest ">>,
        <<"MARGIN INTEREST", "upper", "none", "MARGIN INTEREST">>,
        <<"MARGIN INTEREST", "upper", "spaces", " MARGIN INTEREST ">>,
        <<"MARGIN INTEREST", "lower", "none", "margin interest">>,
        <<"MARGIN INTEREST", "lower", "spaces", " margin interest ">>,
        <<"MARGIN INTEREST", "title", "none", "Margin Interest">>,
        <<"MARGIN INTEREST", "title", "spaces", " Margin Interest ">>,
        <<"HOLD", "upper", "none", "HOLD">>,
        <<"HOLD", "upper", "spaces", " HOLD ">>,
        <<"HOLD", "lower", "none", "hold">>,
        <<"HOLD", "lower", "spaces", " hold ">>,
        <<"HOLD", "title", "none", "Hold">>,
        <<"HOLD", "title", "spaces", " Hold ">>,
        <<"REINVESTMENT", "upper", "none", "REINVESTMENT">>,
        <<"REINVESTMENT", "upper", "spaces", " REINVESTMENT ">>,
        <<"REINVESTMENT", "lower", "none", "reinvestment">>,
        <<"REINVESTMENT", "lower", "spaces", " reinvestment ">>,
        <<"REINVESTMENT", "title", "none", "Reinvestment">>,
        <<"REINVESTMENT", "title", "spaces", " Reinvestment ">>,
        <<"BOUGHT", "upper", "none", "BOUGHT">>,
        <<"BOUGHT", "upper", "spaces", " BOUGHT ">>,
        <<"BOUGHT", "lower", "none", "bought">>,
        <<"BOUGHT", "lower", "spaces", " bought ">>,
        <<"BOUGHT", "title", "none", "Bought">>,
        <<"BOUGHT", "title", "spaces", " Bought ">>,
        <<"BUYS", "upper", "none", "BUYS">>,
        <<"BUYS", "upper", "spaces", " BUYS ">>,
        <<"BUYS", "lower", "none", "buys">>,
        <<"BUYS", "lower", "spaces", " buys ">>,
        <<"BUYS", "title", "none", "Buys">>,
        <<"BUYS", "title", "spaces", " Buys ">>,
        <<"SELL  SHORT", "upper", "none", "SELL  SHORT">>,
        <<"SELL  SHORT", "upper", "spaces", " SELL  SHORT ">>,
        <<"SELL  SHORT", "lower", "none", "sell  short">>,
        <<"SELL  SHORT", "lower", "spaces", " sell  short ">>,
        <<"SELL  SHORT", "title", "none", "Sell  Short">>,
        <<"SELL  SHORT", "title", "spaces", " Sell  Short ">>,
        <<"BUY TO", "upper", "none", "BUY TO">>,
        <<"BUY TO", "upper", "spaces", " BUY TO ">>,
        <<"BUY TO", "lower", "none", "buy to">>,
        <<"BUY TO", "lower", "spaces", " buy to ">>,
        <<"BUY TO", "title", "none", "Buy To">>,
        <<"BUY TO", "title", "spaces", " Buy To ">>,
        <<"SHORT SELL", "upper", "none", "SHORT SELL">>,
        <<"SHORT SELL", "upper", "spaces", " SHORT SELL ">>,
        <<"SHORT SELL", "lower", "none", "short sell">>,
        <<"SHORT SELL", "lower", "spaces", " short sell ">>,
        <<"SHORT SELL", "title", "none", "Short Sell">>,
        <<"SHORT SELL", "title", "spaces", " Short Sell ">>
    }

\* normalize_action is about to be called on an action string, or on a
\* string of one blank.
InitNorm ==
    /\ MatchIdle
    /\ AggIdle
    /\ CsvIdle
    /\ OptIdle
    /\ StoreIdle
    /\ UploadIdle
    /\ ScoreIdle
    /\ \/ \E r \in ActionStrings :
            /\ text_input = r[4]
            /\ text_origin = [phrase |-> r[1], casing |-> r[2], padding |-> r[3]]
       \/ /\ text_input = " "
          /\ text_origin = [phrase |-> "", casing |-> "upper", padding |-> "spaces"]
    /\ text_result = None
    /\ textPc = "start"

\* action_result = normalize_action(action_str)
CallNormalizeAction ==
    /\ textPc = "start"
    /\ text_result' = NormalizeAction(text_input)
    /\ textPc' = "normalized"
    /\ UNCHANGED <<text_input, text_origin>>
    /\ UNCHANGED <<matchVars, aggVars, csvVars, optVars, storeVars, uploadVars, scoreVars>>

\* if action_result is None or not action_result[1]: the row is skipped and
\* counted; otherwise the row goes on with normalized_action.
SkipOrKeepRow ==
    /\ textPc = "normalized"
    /\ textPc' = IF text_result = None \/ ~text_result[1].is_trade THEN "skipped" ELSE "kept"
    /\ UNCHANGED <<text_input, text_origin, text_result>>
    /\ UNCHANGED <<matchVars, aggVars, csvVars, optVars, storeVars, uploadVars, scoreVars>>

NextNorm ==
    \/ CallNormalizeAction
    \/ SkipOrKeepRow

SpecNorm == InitNorm /\ [][NextNorm]_vars

\* ---------------------------------------------------------- parse_timestamp

\* The date strings: a date text alone or followed by a reissue marker in
\* one of three letter cases and a second text, bare or between blanks, as
\* (first text, marker, padding, string).
DateStrings ==
    {
        <<"01/02/2025", "", "none", "01/02/2025">>,
        <<"01/02/2025", "", "spaces", " 01/02/2025 ">>,
        <<"01/02/2025", " as of ", "none", "01/02/2025 as of 01/01/2025">>,
        <<"01/02/2025", " as of ", "spaces", " 01/02/2025 as of 01/01/2025 ">>,
        <<"01/02/2025", " as of ", "none", "01/02/2025 as of garbage">>,
        <<"01/02/2025", " as of ", "spaces", " 01/02/2025 as of garbage ">>,
        <<"01/02/2025", " AS OF ", "none", "01/02/2025 AS OF 01/01/2025">>,
        <<"01/02/2025", " AS OF ", "spaces", " 01/02/2025 AS OF 01/01/2025 ">>,
        <<"01/02/2025", " AS OF ", "none", "01/02/2025 AS OF garbage">>,
        <<"01/02/2025", " AS OF ", "spaces", " 01/02/2025 AS OF garbage ">>,
        <<"01/02/2025", " As Of ", "none", "01/02/2025 As Of 01/01/2025">>,
        <<"01/02/2025", " As Of ", "spaces", " 01/02/2025 As Of 01/01/2025 ">>,
        <<"01/02/2025", " As Of ", "none", "01/02/2025 As Of garbage">>,
        <<"01/02/2025", " As Of ", "spaces", " 01/02/2025 As Of garbage ">>,
        <<"01/04/2025", "", "none", "01/04/2025">>,
        <<"01/04/2025", "", "spaces", " 01/04/2025 ">>,
        <<"01/04/2025", " as of ", "none", "01/04/2025 as of 01/01/2025">>,
        <<"01/04/2025", " as of ", "spaces", " 01/04/2025 as of 01/01/2025 ">>,
        <<"01/04/2025", " as of ", "none", "01/04/2025 as of garbage">>,
        <<"01/04/2025", " as of ", "spaces", " 01/04/2025 as of garbage ">>,
        <<"01/04/2025", " AS OF ", "none", "01/04/2025 AS OF 01/01/2025">>,
        <<"01/04/2025", " AS OF ", "spaces", " 01/04/2025 AS OF 01/01/2025 ">>,
        <<"01/04/2025", " AS OF ", "none", "01/04/2025 AS OF garbage">>,
        <<"01/04/2025", " AS OF ", "spaces", " 01/04/2025 AS OF garbage ">>,
        <<"01/04/2025", " As Of ", "none", "01/04/2025 As Of 01/01/2025">>,
        <<"01/04/2025", " As Of ", "spaces", " 01/04/2025 As Of 01/01/2025 ">>,
        <<"01/04/2025", " As Of ", "none", "01/04/2025 As Of garbage">>,
        <<"01/04/2025", " As Of ", "spaces", " 01/04/2025 As Of garbage ">>,
        <<"2025-01-03T10:00:00Z", "", "none", "2025-01-03T10:00:00Z">>,
        <<"2025-01-03T10:00:00Z", "", "spaces", " 2025-01-03T10:00:00Z ">>,
        <<"2025-01-03T10:00:00Z", " as of ", "none", "2025-01-03T10:00:00Z as of 01/01/2025">>,
        <<"2025-01-03T10:00:00Z", " as of ", "spaces", " 2025-01-03T10:00:00Z as of 01/01/2025 ">>,
        <<"2025-01-03T10:00:00Z", " as of ", "none", "2025-01-03T10:00:00Z as of garbage">>,
        <<"2025-01-03T10:00:00Z", " as of ", "spaces", " 2025-01-03T10:00:00Z as of garbage ">>,
        <<"2025-01-03T10:00:00Z", " AS OF ", "none", "2025-01-03T10:00:00Z AS OF 01/01/2025">>,
        <<"2025-01-03T10:00:00Z", " AS OF ", "spaces", " 2025-01-03T10:00:00Z AS OF 01/01/2025 ">>,
        <<"2025-01-03T10:00:00Z", " AS OF ", "none", "2025-01-03T10:00:00Z AS OF garbage">>,
        <<"2025-01-03T10:00:00Z", " AS OF ", "spaces", " 2025-01-03T10:00:00Z AS OF garbage ">>,
        <<"2025-01-03T10:00:00Z", " As Of ", "none", "2025-01-03T10:00:00Z As Of 01/01/2025">>,
        <<"2025-01-03T10:00:00Z", " As Of ", "spaces", " 2025-01-03T10:00:00Z As Of 01/01/2025 ">>,
        <<"2025-01-03T10:00:00Z", " As Of ", "none", "2025-01-03T10:00:00Z As Of garbage">>,
        <<"2025-01-03T10:00:00Z", " As Of ", "spaces", " 2025-01-03T10:00:00Z As Of garbage ">>,
        <<"garbage", "", "none", "garbage">>,
        <<"garbage", "", "spaces", " garbage ">>,
        <<"garbage", " as of ", "none", "garbage as of 01/01/2025">>,
        <<"garbage", " as of ", "spaces", " garbage as of 01/01/2025 ">>,
        <<"garbage", " as of ", "none", "garbage as of garbage">>,
        <<"garbage", " as of ", "spaces", " garbage as of garbage ">>,
        <<"garbage", " AS OF ", "none", "garbage AS OF 01/01/2025">>,
        <<"garbage", " AS OF ", "spaces", " garbage AS OF 01/01/2025 ">>,
        <<"garbage", " AS OF ", "none", "garbage AS OF garbage">>,
        <<"garbage", " AS OF ", "spaces", " garbage AS OF garbage ">>,
        <<"garbage", " As Of ", "none", "garbage As Of 01/01/2025">>,
        <<"garbage", " As Of ", "spaces", " garbage As Of 01/01/2025 ">>,
        <<"garbage", " As Of ", "none", "garbage As Of garbage">>,
        <<"garbage", " As Of ", "spaces", " garbage As Of garbage ">>
    }

InitTime ==
    /\ MatchIdle
    /\ AggIdle
    /\ CsvIdle
    /\ OptIdle
    /\ StoreIdle
    /\ UploadIdle
    /\ ScoreIdle
    /\ \E r \in DateStrings :
         /\ text_input = r[4]
         /\ text_origin = [first |-> r[1], marker |-> r[2], padding |-> r[3]]
    /\ text_result = None
    /\ textPc = "start"

\* date = parse_timestamp(date_str)
CallParseTimestamp ==
    /\ textPc = "start"
    /\ text_result' = ParseTimestamp(text_input)
    /\ textPc' = "parsed"
    /\ UNCHANGED <<text_input, text_origin>>
    /\ UNCHANGED <<matchVars, aggVars, csvVars, optVars, storeVars, uploadVars, scoreVars>>

\* if date is None: the row is skipped and counted.
RejectOrKeepRow ==
    /\ textPc = "parsed"
    /\ textPc' = IF text_result = None THEN "skipped" ELSE "kept"
    /\ UNCHANGED <<text_input, text_origin, text_result>>
    /\ UNCHANGED <<matchVars, aggVars, csvVars, optVars, storeVars, uploadVars, scoreVars>>

NextTime ==
    \/ CallParseTimestamp
    \/ RejectOrKeepRow

SpecTime == InitTime /\ [][NextTime]_vars

\* ------------------------------------ properties: parse_trade_history_csv
\* x > 0 on floats: false for NaN.
StrictlyPositive(x) == x # NaN /\ x > 0

\* The text of a cell that is there, stripped.
TextOf(cell) == Strip(cell[1])

\* The row has one of the row-level defects: a cell missing from the line,
\* an empty date, action or symbol, an action that is no trade or is
\* unknown, an unparseable date, a quantity or a price that is unparseable
\* or not strictly positive.
BadNumber(cell) ==
    \/ ParseNumeric(TextOf(cell)) = None
    \/ ~StrictlyPositive(ParseNumeric(TextOf(cell))[1])
RowDefect(row) ==
    \/ \E cell \in {row.date, row.action, row.symbol, row.quantity, row.price} :
          cell = None \/ TextOf(cell) = ""
    \/ Upper(TextOf(row.action)) \notin
          {"BUY", "SELL", "BUY TO OPEN", "BUY TO CLOSE", "SELL TO OPEN",
           "SELL TO CLOSE", "SELL SHORT", "SHORT"}
    \/ ParseTimestamp(TextOf(row.date)) = None
    \/ BadNumber(row.quantity)
    \/ BadNumber(row.price)

\* C11: a step of the row loop on a row with a row-level defect raises
\* nothing, adds exactly one to skipped_count, accepts no action and leaves
\* the loop running; and when parse_trade_history_csv has returned,
\* skipped_count + number of accepted actions = number of data rows.
C11_RowErrorsNeverAbort ==
    /\ [][(csvPc = "rows" /\ row_num' = row_num + 1
            /\ RowDefect(DataRows[row_num])) =>
               /\ skipped_count' = skipped_count + 1
               /\ actions' = actions
               /\ raised' = None
               /\ csvPc' = "rows"]_vars
    /\ [](csvPc = "returned" =>
             skipped_count + Len(actions) = Len(DataRows))

\* The input has a header row with the five required columns.
HeaderComplete ==
    /\ csv_content.header # None
    /\ RequiredColumns \subseteq
          {LowerStrip(csv_content.header[1][i]) : i \in 1..Len(csv_content.header[1])}

\* Some data row of the input is a valid action.
SomeValidAction ==
    \E i \in 1..Len(DataRows) :
        ParseRow(ColumnMap(csv_content.header[1]), DataRows[i]).kind = "action"

\* C12: parse_trade_history_csv raises only when the input has no header
\* row, lacks a required column or yields no valid action: with the required
\* header and at least one valid action the call never ends in an exception.
C12_BatchErrorsOnly ==
    (csvPc = "raised" \/ raised # None) => ~(HeaderComplete /\ SomeValidAction)

\* C13: every TradeAction that parse_trade_history_csv hands to match_trades
\* has action BUY or SELL, an uppercase ticker, quantity > 0, price > 0 and
\* fees >= 0.
C13_ValidActions ==
    csvPc \in {"match", "returned"} =>
        \A i \in 1..Len(actions) :
            /\ actions[i].action \in {"BUY", "SELL"}
            /\ Upper(actions[i].ticker) = actions[i].ticker
            /\ StrictlyPositive(actions[i].quantity)
            /\ StrictlyPositive(actions[i].price)
            /\ actions[i].fees >= 0

\* ------------------------------------ properties: save_open_positions

\* The lots of a list, and a list that holds no lot twice.
LotsOf(rows) == {rows[i] : i \in 1..Len(rows)}

NoLotTwice(rows) == \A i, j \in 1..Len(rows) : rows[i] = rows[j] => i = j

\* No call of save_open_positions is under way and one has returned.
SavesQuiescent ==
    /\ completed # <<>>
    /\ \A p \in Savers : savePc[p] \in {"idle", "done"}

\* C19: once the saves for a user have returned, the user's stored open
\* positions are exactly the lots of the save that returned last: no row of
\* an earlier save remains and no lot is stored twice, under any interleaving
\* of the saves and any failure of a single store operation.
C19_PositionsReplaced ==
    SavesQuiescent =>
        /\ LotsOf(user_open_positions) = LotsOf(save_arg[completed[Len(completed)]])
        /\ NoLotTwice(user_open_positions)

\* ----------------------------------- properties: upload_trade_history

\* The score a lookup outcome leaves in the trade's field.
FieldAfter(out) == IF out[1] = "found" THEN Some(out[2]) ELSE None

\* Every trade's score fields are what its lookups gave: None after a lookup
\* that raised or found no row, and None while no lookup has returned.
ScoresAsLookedUp ==
    \A i \in 1..Len(upload_trades) :
        IF score_lookups[i] = None
        THEN upload_trades[i].regard_score_at_entry = None /\ upload_trades[i].regard_score_at_exit = None
        ELSE /\ upload_trades[i].regard_score_at_entry = FieldAfter(score_lookups[i][1][1])
             /\ upload_trades[i].regard_score_at_exit = FieldAfter(score_lookups[i][1][2])

\* Every closed trade of the upload is a row of user_trades, with the scores
\* the trade carries.
EveryTradeStored ==
    \A i \in 1..Len(upload_trades) :
        \E j \in 1..Len(user_trades) : user_trades[j] = upload_trades[i]

C30_FailedUploadKeepsStore ==
    upPc = "failed" =>
        /\ user_trades = stored_before[1].trades
        /\ user_open_positions = stored_before[1].positions

\* --------------------------------- properties: calculate_ragard_score

\* C20: calculate_ragard_score has called the scorer exactly once, with the
\* ticker's symbol; it returns the integer part of the score the scorer
\* yielded, and None (not a placeholder) when the scorer yielded no score or
\* raised; no exception reaches the caller.
C20_ScoreOrNone ==
    scorePc = "done" =>
        /\ scorer_calls = <<symbol>>
        /\ ~score_raised
        /\ LET out == scorer_outcome[1]
           IN IF out[1] = "score"
              THEN /\ score_result # None
                   /\ Tenth * score_result[1] <= out[2]
                   /\ out[2] < Tenth * (score_result[1] + 1)
              ELSE score_result = None

\* The scorer raised and the call returned None.
C20_Witness ==
    /\ scorePc = "done"
    /\ scorer_outcome = Some(<<"raises">>)
    /\ score_result = None
    /\ scorer_calls = <<symbol>>

\* ------------------------------------------- properties: normalize_action

\* C26: whatever the letter case and the blanks around it, a BUY phrase is
\* normalized to BUY and a SELL phrase to SELL, both as trades; every other
\* string that is not empty is no trade, and its row is skipped instead of
\* going on to the matcher.
C26_ActionVocabulary ==
    /\ textPc \in {"normalized", "skipped", "kept"} =>
          IF text_origin.phrase \in BuyPhrases
          THEN text_result = Some([action |-> Some("BUY"), is_trade |-> TRUE])
          ELSE IF text_origin.phrase \in SellPhrases
          THEN text_result = Some([action |-> Some("SELL"), is_trade |-> TRUE])
          ELSE text_result = Some([action |-> None, is_trade |-> FALSE])
    /\ textPc = "kept" => text_origin.phrase \in BuyPhrases \cup SellPhrases
    /\ textPc = "skipped" => text_origin.phrase \notin BuyPhrases \cup SellPhrases

\* A short sale written in lower case between blanks has been normalized to
\* SELL and its row kept.
C26_Witness ==
    /\ textPc = "kept"
    /\ text_input = " sell short "
    /\ text_result = Some([action |-> Some("SELL"), is_trade |-> TRUE])

\* -------------------------------------------- properties: parse_timestamp

\* C27: a date value that contains the marker ' as of ', in any letter case,
\* is read as the text before the marker; a value no format parses gives no
\* timestamp, and its row is rejected.
C27_ReissueMarker ==
    /\ textPc \in {"parsed", "skipped", "kept"} => text_result = ParseFormats(text_origin.first)
    /\ textPc = "skipped" => ParseFormats(text_origin.first) = None
    /\ textPc = "kept" => ParseFormats(text_origin.first) # None

\* ----------------------------------------- properties: option ticker
\* The ticker has the option shape: exactly four tokens, the second a
\* MM/DD/YYYY date, the third a decimal, the fourth a type token.
OptionShape(tk) ==
    /\ Len(tk) = 4
    /\ tk[2] \in DateTokens
    /\ tk[3] \in FloatTokens
    /\ Upper(tk[4]) \in {"C", "P", "CALL", "PUT"}

\* C14: _parse_option_ticker returns metadata for a ticker of the option
\* shape (with its underlying, strike, type and expiration) and None for
\* every other ticker.
C14_OptionTickerShape ==
    optPc = "done" =>
        IF OptionShape(opt_ticker)
        THEN /\ opt_result # None
             /\ opt_result[1].underlying = opt_ticker[1]
             /\ opt_result[1].expiration = DateOf(opt_ticker[2])
             /\ opt_result[1].strike = FloatOf(opt_ticker[3])
             /\ opt_result[1].option_type \in {"CALL", "PUT"}
        ELSE opt_result = None

\* --------------------------------------------------- properties: aggregator
\* The key's ticker parses as an option whose expiration is before now.
ExpiredKey(key) ==
    /\ ParseOptionTicker(key[1]) # None
    /\ ParseOptionTicker(key[1])[1].expiration < now

\* The closed trades / open positions / listed positions of a key.
TradesOfKey(key) ==
    SelectSeq(closed_trades, LAMBDA t : t.ticker = key[1] /\ t.side = key[2])
PositionsOfKey(key) ==
    SelectSeq(open_positions, LAMBDA o : o.ticker = key[1] /\ o.side = key[2])
ListedOfKey(key) ==
    IF open_positions_list = None THEN <<>>
    ELSE SelectSeq(open_positions_list[1],
                   LAMBDA o : o.ticker = key[1] /\ o.side = key[2])

\* Sums over the stored lots of a key, taken from the store itself.
StoredQty(key) ==
    SumSeq([i \in 1..Len(stored_lots) |->
        IF <<stored_lots[i].ticker, stored_lots[i].side>> = key
        THEN stored_lots[i].quantity ELSE 0])
StoredCost(key) ==
    SumSeq([i \in 1..Len(stored_lots) |->
        IF <<stored_lots[i].ticker, stored_lots[i].side>> = key
        THEN stored_lots[i].quantity * stored_lots[i].entry_price ELSE 0])

\* C7: once the loop has passed a (ticker, side) group whose ticker is an
\* option with expiration strictly before now, the closed trades hold exactly
\* one trade of that group, with exit price 0, the group's total quantity and
\* realized_pnl = -total cost basis for LONG, +total cost basis for SHORT; and
\* the group is never among the open positions, nor in the list returned.
C7_ExpiredOption ==
    \A i \in 1..Len(groups) :
        ExpiredKey(groups[i]) =>
            /\ PositionsOfKey(groups[i]) = <<>>
            /\ ListedOfKey(groups[i]) = <<>>
            /\ i < g =>
                /\ Len(TradesOfKey(groups[i])) = 1
                /\ LET t == TradesOfKey(groups[i])[1]
                   IN /\ t.exit_price = 0
                      /\ t.quantity = StoredQty(groups[i])
                      /\ t.side = "LONG" => t.realized_pnl = -StoredCost(groups[i])
                      /\ t.side = "SHORT" => t.realized_pnl = StoredCost(groups[i])

\* Witness of C7: the aggregator has returned; an expired option was held
\* LONG in one lot and SHORT in another, each closed at 0 with its premium
\* lost or kept.
C7_Witness ==
    /\ aggPc = "returned"
    /\ \E i, j \in 1..Len(groups) :
          /\ ExpiredKey(groups[i]) /\ groups[i][2] = "LONG"
          /\ ExpiredKey(groups[j]) /\ groups[j][2] = "SHORT"
          /\ Len(TradesOfKey(groups[i])) = 1
          /\ TradesOfKey(groups[i])[1].realized_pnl < 0
          /\ TradesOfKey(groups[j])[1].realized_pnl > 0

\* A second case of C7: an expired LONG group of two lots.
C7_TwoLots ==
    /\ aggPc = "returned"
    /\ \E i \in 1..Len(groups) :
          /\ ExpiredKey(groups[i])
          /\ Len(LotsOfGroup(stored_lots, groups[i])) = 2
          /\ Len(TradesOfKey(groups[i])) = 1

\* The groups that are not expired options, in loop order.
PricedGroups == SelectSeq(groups, LAMBDA key : ~ExpiredKey(key))

\* The lookup failed: it raised or had no data (value None) or timed out.
LookupFailed(l) == l.value = None \/ l.seconds > LookupTimeout

\* C8: a group whose price lookup fails, raises or times out still gets its
\* OpenPosition, with current_price, unrealized_pnl and unrealized_return
\* null; the k-th lookup of the run decides the k-th position and no other
\* (its current price is the one derived from that lookup's own result); and
\* when the aggregator returns, every group that is not an expired option
\* has exactly one position, in the list handed back as well.
C8_UnpricedStillReturned ==
    /\ \A k \in 1..Len(lookups) :
          ~lookups[k].cancelled =>
             /\ k <= Len(open_positions)
             /\ open_positions[k].ticker = lookups[k].key[1]
             /\ open_positions[k].side = lookups[k].key[2]
             /\ open_positions[k].quantity = StoredQty(lookups[k].key)
             /\ LookupFailed(lookups[k]) =>
                   /\ open_positions[k].current_price = None
                   /\ open_positions[k].unrealized_pnl = None
                   /\ open_positions[k].unrealized_return = None
             /\ ~LookupFailed(lookups[k]) =>
                   /\ open_positions[k].current_price
                        = CurrentPrice(lookups[k].key, lookups[k].value)
    /\ (aggPc = "returned" /\ groups # <<>>) =>
          /\ Len(open_positions) = Len(PricedGroups)
          /\ \A k \in 1..Len(PricedGroups) :
                /\ Len(PositionsOfKey(PricedGroups[k])) = 1
                /\ Len(ListedOfKey(PricedGroups[k])) = 1
                /\ lookups[k].key = PricedGroups[k]

\* Witness of C8: the aggregator has returned two positions; the lookup of
\* the first timed out and its position is unpriced, the second is priced.
C8_Witness ==
    /\ aggPc = "returned"
    /\ Len(open_positions) = 2 /\ Len(lookups) = 2
    /\ lookups[1].seconds > LookupTimeout
    /\ open_positions[1].current_price = None
    /\ open_positions[2].current_price # None
    /\ open_positions[2].unrealized_pnl # None

\* The lookup was slow or failing: it raised or had no data, or took longer
\* than the time the code allows one lookup.
SlowOrFailing(l) == l.value = None \/ l.seconds > LookupTimeout

\* C9: if at most one lookup of a run is slow or failing, then when the
\* caller has its result no other lookup was cut short (every other lookup
\* returned its value), and every group that is not an expired option is in
\* the caller's list of positions.
C9_LookupIsolation ==
    (open_positions_list # None
       /\ Cardinality({k \in 1..Len(lookups) : SlowOrFailing(lookups[k])}) <= 1) =>
        /\ \A k \in 1..Len(lookups) :
              ~SlowOrFailing(lookups[k]) =>
                 ~lookups[k].cancelled /\ lookups[k].result = lookups[k].value
        /\ groups # <<>> =>
              \A k \in 1..Len(PricedGroups) : Len(ListedOfKey(PricedGroups[k])) = 1

\* C10: when the caller's overall timeout on the aggregation expires, every
\* open position is still in the caller's result (the unresolved ones with
\* current_price null): every group that is not an expired option is listed.
C10_TimeoutDegradesToUnpriced ==
    aggPc = "timed_out" =>
        /\ open_positions_list # None
        /\ \A k \in 1..Len(PricedGroups) : Len(ListedOfKey(PricedGroups[k])) = 1

\* C15: every open position of the aggregator whose current_price is known
\* has unrealized_pnl = (current_price - avg_entry_price) * quantity when
\* LONG and (avg_entry_price - current_price) * quantity when SHORT, and
\* unrealized_return = unrealized_pnl / total_cost_basis; when current_price
\* is unknown both are null.
C15_UnrealizedPnl ==
    \A k \in 1..Len(open_positions) :
        LET op == open_positions[k]
            diff == IF op.side = "LONG"
                    THEN RatSub(RatInt(op.current_price[1]), op.avg_entry_price)
                    ELSE RatSub(op.avg_entry_price, RatInt(op.current_price[1]))
        IN IF op.current_price = None
           THEN op.unrealized_pnl = None /\ op.unrealized_return = None
           ELSE /\ op.unrealized_pnl = Some(RatMul(diff, RatInt(op.quantity)))
                /\ op.unrealized_return =
                      Some(RatDiv(op.unrealized_pnl[1], RatInt(op.total_cost_basis)))

\* Witness of C15: the aggregator has returned a SHORT position priced above
\* its entry (a loss, a negative return) and a position of unknown price.
C15_Witness ==
    /\ aggPc = "returned"
    /\ \E k \in 1..Len(open_positions) :
          /\ open_positions[k].side = "SHORT"
          /\ open_positions[k].current_price # None
          /\ open_positions[k].unrealized_pnl # None
          /\ open_positions[k].unrealized_pnl[1].num < 0
          /\ open_positions[k].unrealized_return[1].num < 0
    /\ \E k \in 1..Len(open_positions) :
          open_positions[k].current_price = None

\* C16: the aggregator holds at most one open position per (ticker, side);
\* its quantity is the sum of the quantities of the stored lots of that
\* ticker and side, total_cost_basis the sum of quantity * entry price over
\* them, avg_entry_price their quotient, avg_entry_time the earliest entry
\* time among them.
C16_LotAggregation ==
    \A k \in 1..Len(open_positions) :
        LET op == open_positions[k]
            key == <<op.ticker, op.side>>
            mine == {i \in 1..Len(stored_lots) :
                        <<stored_lots[i].ticker, stored_lots[i].side>> = key}
        IN /\ \A j \in 1..Len(open_positions) :
                 <<open_positions[j].ticker, open_positions[j].side>> = key => j = k
           /\ mine # {}
           /\ op.quantity = StoredQty(key)
           /\ op.total_cost_basis = StoredCost(key)
           /\ op.avg_entry_price = Rat(StoredCost(key), StoredQty(key))
           /\ \E i \in mine : op.avg_entry_time = stored_lots[i].entry_time
           /\ \A i \in mine : op.avg_entry_time <= stored_lots[i].entry_time

\* Witness of C16: the aggregator has returned a position made of two lots
\* of different quantity, price and entry time.
C16_Witness ==
    /\ aggPc = "returned"
    /\ Len(stored_lots) = 2
    /\ stored_lots[1].quantity # stored_lots[2].quantity
    /\ Len(open_positions) = 1
    /\ open_positions[1].quantity = stored_lots[1].quantity + stored_lots[2].quantity
    /\ open_positions[1].avg_entry_time = stored_lots[2].entry_time

\* C17: no step of the aggregator changes the stored trades or the stored
\* lots; and a second run on the same stored trades and lots, with the same
\* now and a price lookup that returns the same values, returns the same
\* open positions and the same closed trades as the first.
C17_Idempotence ==
    /\ [][stored_lots' = stored_lots /\ trades_data' = trades_data /\ now' = now]_vars
    /\ []((aggPc = "returned" /\ first_run # None) =>
             /\ open_positions = first_run[1].open_positions
             /\ closed_trades = first_run[1].closed_trades)

\* Witness of C17: the second run has returned; it converted stored trades,
\* closed an expired option at 0 and priced an open position.
C17_Witness ==
    /\ aggPc = "returned"
    /\ first_run # None
    /\ trades_data # <<>>
    /\ Len(closed_trades) > Len(trades_data)
    /\ open_positions # <<>>
    /\ open_positions[1].current_price # None

\* ------------------------------------------ properties: option mark price
\* The intrinsic value of an option with the given metadata at underlying
\* price u.
IntrinsicValue(meta, u) ==
    IF meta.option_type = "CALL" THEN Max(0, u - meta.strike) ELSE Max(0, meta.strike - u)

\* C28: the OpenPosition of a non-expired option group whose lookup returned
\* the underlying's price u has current_price = max(0, u - strike) for a
\* CALL, max(0, strike - u) for a PUT, and pricing_is_estimated true; the
\* OpenPosition of an equity group has the lookup's result as current_price
\* and pricing_is_estimated false.
C28_OptionMarkPrice ==
    \A i \in 1..Len(open_positions) :
        LET o == open_positions[i]
            l == lookups[i]
        IN IF ParseOptionTicker(o.ticker) # None
           THEN /\ o.pricing_is_estimated
                /\ l.result # None =>
                     o.current_price = Some(IntrinsicValue(ParseOptionTicker(o.ticker)[1], l.result[1]))
           ELSE /\ ~o.pricing_is_estimated
                /\ o.current_price = l.result

\* ---------------------------------------- properties: aggregator partition
\* The closed trades the aggregator made itself: those after the converted
\* stored trades.
SyntheticTrades == SubSeq(closed_trades, Len(trades_data) + 1, Len(closed_trades))

\* The synthetic closed trades of a key.
SyntheticOfKey(key) ==
    SelectSeq(SyntheticTrades, LAMBDA t : t.ticker = key[1] /\ t.side = key[2])

\* The aggregator has read the stored lots and grouped them.
LotsGrouped == aggPc \in {"loop", "returned", "timed_out"} /\ (groups # <<>> \/ stored_lots = <<>>)

Last(s) == s[Len(s)]

QtyOf(s) == SumSeq([i \in 1..Len(s) |-> s[i].quantity])

\* Total quantity of the input actions of ticker t and kind k.
InputQty(t, k) == QtyOf(SelectSeq(actions, LAMBDA a : a.ticker = t /\ a.action = k))

\* Total quantity of the closed trades of ticker t (both sides).
ClosedQty(t) == QtyOf(SelectSeq(parsed_trades, LAMBDA x : x.ticker = t))

\* Total quantity of the returned open lots of ticker t and side sd.
OpenQty(t, sd) ==
    QtyOf(SelectSeq(all_open_positions, LAMBDA o : o.ticker = t /\ o.side = sd))

\* Input quantity of kind k that is neither closed nor open at the end.
BuyGap(t) == InputQty(t, "BUY") - ClosedQty(t) - OpenQty(t, "LONG")
SellGap(t) == InputQty(t, "SELL") - ClosedQty(t) - OpenQty(t, "SHORT")

\* C1: when match_trades returns, for every ticker the total BUY quantity
\* equals closed LONG + closed SHORT + open LONG quantity and the total SELL
\* quantity equals closed LONG + closed SHORT + open SHORT quantity, within
\* the tolerance 0.0001.
C1_QuantityConservation ==
    pc = "done" =>
        \A t \in Tickers : Abs(BuyGap(t)) <= Eps /\ Abs(SellGap(t)) <= Eps

\* The input row a closed trade or a lot came from (description is the row).
RowOf(d) == actions[d]

\* Position of input row d in the sorted list of the current ticker.
RankOf(d) ==
    CHOOSE i \in 1..Len(ticker_actions_list) : ticker_actions_list[i].description = d

\* A match has just been made: one more closed trade.
Matched == Len(parsed_trades') = Len(parsed_trades) + 1

\* C2: strict FIFO.  Whenever a SELL closes a long lot or a BUY covers a short
\* lot, the lot matched is the earliest-opened lot still open for the ticker:
\* no lot of the queue was opened by an earlier action (earlier date, or same
\* date and earlier in the input) than the lot the new closed trade entered.
C2_StrictFifo ==
    [][Matched =>
         LET t == Last(parsed_trades')
             queue == IF t.side = "LONG" THEN open_long_positions
                      ELSE open_short_positions
         IN \A i \in 1..Len(queue) :
                /\ RankOf(t.entry_description) <= RankOf(queue[i].description)
                /\ t.entry_time <= queue[i].date]_vars

\* Witness of C2: two BUYs of one ticker at different dates and a SELL that
\* closed the earlier one whole, the later lot being returned open and whole,
\* although the later BUY comes first in the input.
C2_Witness ==
    /\ pc = "done"
    /\ \E i \in 1..Len(parsed_trades) : \E j \in 1..Len(all_open_positions) :
          LET t == parsed_trades[i]
              o == all_open_positions[j]
          IN /\ t.side = "LONG" /\ o.side = "LONG" /\ t.ticker = o.ticker
             /\ t.entry_time < o.entry_time
             /\ o.description < t.entry_description
             /\ t.quantity = RowOf(t.entry_description).quantity
             /\ o.quantity = RowOf(o.description).quantity

\* C3: for every closed trade, entry_fees = fees of the opening action *
\* matched quantity / original quantity of the opening action, and exit_fees
\* = fees of the closing action * matched quantity / original quantity of the
\* closing action (stated without division).
C3_FeesProratedByOriginalQuantity ==
    \A i \in 1..Len(parsed_trades) :
        LET t == parsed_trades[i]
            opening == RowOf(t.entry_description)
            closing == RowOf(t.exit_description)
        IN /\ t.entry_fees * opening.quantity = opening.fees * t.quantity
           /\ t.exit_fees * closing.quantity = closing.fees * t.quantity

\* Quantity of the closed trades that exited by input row d / entered by it.
ExitedQty(d) == QtyOf(SelectSeq(parsed_trades, LAMBDA x : x.exit_description = d))
EnteredQty(d) == QtyOf(SelectSeq(parsed_trades, LAMBDA x : x.entry_description = d))

\* C4: every closed trade has realized_pnl = (exit_price - entry_price) *
\* quantity - entry_fees - exit_fees when LONG and (entry_price - exit_price)
\* * quantity - entry_fees - exit_fees when SHORT, with the prices of the rows
\* it matched; quantity is the matched slice: the trades that share an
\* opening or a closing row never add up to more than that row's quantity.
C4_RealizedPnl ==
    \A i \in 1..Len(parsed_trades) :
        LET t == parsed_trades[i]
        IN /\ t.entry_price = RowOf(t.entry_description).price
           /\ t.exit_price = RowOf(t.exit_description).price
           /\ t.side = "LONG" =>
                t.realized_pnl = (t.exit_price - t.entry_price) * t.quantity
                                   - t.entry_fees - t.exit_fees
           /\ t.side = "SHORT" =>
                t.realized_pnl = (t.entry_price - t.exit_price) * t.quantity
                                   - t.entry_fees - t.exit_fees
           /\ t.side \in {"LONG", "SHORT"}
           /\ ExitedQty(t.exit_description) <= RowOf(t.exit_description).quantity
           /\ EnteredQty(t.entry_description) <= RowOf(t.entry_description).quantity

\* Witness of C4: a LONG trade whose quantity is smaller than the quantity of
\* the BUY it entered and of the SELL it exited (both partially consumed by
\* this match), with a nonzero price difference and nonzero fees.
C4_Witness ==
    \E i \in 1..Len(parsed_trades) :
        LET t == parsed_trades[i]
        IN /\ t.side = "LONG"
           /\ t.quantity < RowOf(t.entry_description).quantity
           /\ t.quantity < RowOf(t.exit_description).quantity
           /\ t.exit_price # t.entry_price
           /\ t.entry_fees > 0 /\ t.exit_fees > 0

\* C5: (a) a SELL that arrives while its ticker has no open long lot opens a
\* SHORT lot for its whole quantity; (b) every closed SHORT trade enters at a
\* SELL row and exits at a BUY row with their prices and dates; (c) a BUY
\* opens a LONG lot only when the short queue is empty, and only with the
\* quantity it has left.
C5_ShortRoundTrip ==
    /\ [][/\ (pc = "sell" /\ pc' = "for" /\ open_long_positions = <<>>
               /\ remaining_quantity = action.quantity)
              => /\ Len(open_short_positions') = Len(open_short_positions) + 1
                 /\ Last(open_short_positions').quantity = action.quantity
                 /\ Last(open_short_positions').price = action.price
                 /\ Last(open_short_positions').date = action.date
          /\ (Len(open_long_positions') = Len(open_long_positions) + 1)
              => /\ open_short_positions = <<>>
                 /\ action.action = "BUY"
                 /\ Last(open_long_positions').quantity = remaining_quantity]_vars
    /\ [](\A i \in 1..Len(parsed_trades) :
            LET t == parsed_trades[i]
                opening == RowOf(t.entry_description)
                closing == RowOf(t.exit_description)
            IN t.side = "SHORT" =>
                 /\ opening.action = "SELL" /\ closing.action = "BUY"
                 /\ t.entry_price = opening.price /\ t.entry_time = opening.date
                 /\ t.exit_price = closing.price /\ t.exit_time = closing.date)

\* C6: each match produces exactly one closed trade, of quantity
\* min(quantity the incoming action has left, quantity the lot has left); the
\* trades that exit by the same action share its exit time and price and
\* enter by different lots; the trades that enter by the same lot share its
\* entry price and time and exit by different actions.
C6_PartialFillSplit ==
    /\ [][(parsed_trades' # parsed_trades) =>
            /\ Matched
            /\ SubSeq(parsed_trades', 1, Len(parsed_trades)) = parsed_trades
            /\ LET t == Last(parsed_trades')
                   queue == IF t.side = "LONG" THEN open_long_positions
                            ELSE open_short_positions
               IN /\ t.quantity = Min(remaining_quantity, Head(queue).quantity)
                  /\ t.quantity > 0
                  /\ remaining_quantity' = remaining_quantity - t.quantity]_vars
    /\ [](\A i, j \in 1..Len(parsed_trades) :
            LET t == parsed_trades[i]
                u == parsed_trades[j]
            IN /\ (i # j /\ t.exit_description = u.exit_description)
                    => /\ t.exit_time = u.exit_time /\ t.exit_price = u.exit_price
                       /\ t.entry_description # u.entry_description
               /\ (i # j /\ t.entry_description = u.entry_description)
                    => /\ t.entry_price = u.entry_price
                       /\ t.entry_time = u.entry_time
                       /\ t.exit_description # u.exit_description)

\* Witness of C6: a BUY lot closed by two SELLs (two trades with its entry
\* price whose quantities add up to the lot) and nothing of the ticker left
\* open.
C6_Witness ==
    /\ pc = "done"
    /\ \E i, j \in 1..Len(parsed_trades) :
          LET t == parsed_trades[i]
              u == parsed_trades[j]
          IN /\ i < j /\ t.side = "LONG"
             /\ t.entry_description = u.entry_description
             /\ t.exit_description # u.exit_description
             /\ t.quantity + u.quantity = RowOf(t.entry_description).quantity
             /\ OpenQty(t.ticker, "LONG") + OpenQty(t.ticker, "SHORT") = 0

\* A second case of C6: one SELL consumed across two BUY lots.
C6_AcrossLots ==
    \E i, j \in 1..Len(parsed_trades) :
        /\ i < j
        /\ parsed_trades[i].exit_description = parsed_trades[j].exit_description

\* The lots queued for the ticker being processed.
QueuedLots ==
    {open_long_positions[i] : i \in 1..Len(open_long_positions)} \cup {open_short_positions[i] : i \in 1..Len(open_short_positions)}

\* The queue the action being processed is matched against.
OppositeQueue == IF pc = "buy" THEN open_short_positions ELSE open_long_positions

\* C21: while match_trades runs, every queued lot has a quantity above the
\* tolerance and not above the quantity of the action that created it, no
\* remaining quantity is negative, and the quantity of a match exceeds
\* neither what the incoming action has left nor what the lot has left.
C21_LotBounds ==
    /\ [](\A lot \in QueuedLots : lot.quantity > Eps /\ lot.quantity <= RowOf(lot.description).quantity)
    /\ [](remaining_quantity >= 0)
    /\ [][Matched => /\ Last(parsed_trades').quantity <= remaining_quantity
                     /\ Last(parsed_trades').quantity <= Head(OppositeQueue).quantity
                     /\ Last(parsed_trades').quantity > 0]_vars

\* A lot stays queued with less than the quantity of the action that created
\* it: a match has taken part of it.
C21_Witness ==
    /\ parsed_trades # <<>>
    /\ \E lot \in QueuedLots :
         /\ lot.quantity < RowOf(lot.description).quantity
         /\ Last(parsed_trades).entry_description = lot.description

\* C22: a ticker never has open LONG lots and open SHORT lots at the same
\* time: a lot is pushed on one queue only when the other queue is empty, and
\* the open lots returned for one ticker are all of one side.
C22_QueueExclusivity ==
    /\ [](open_long_positions = <<>> \/ open_short_positions = <<>>)
    /\ [](\A i, j \in 1..Len(all_open_positions) : all_open_positions[i].ticker = all_open_positions[j].ticker => all_open_positions[i].side = all_open_positions[j].side)
    /\ [][/\ Len(open_long_positions') > Len(open_long_positions) => open_short_positions = <<>>
          /\ Len(open_short_positions') > Len(open_short_positions) => open_long_positions = <<>>]_vars

\* A BUY has covered the only short lot of its ticker and opened a LONG lot
\* with what it had left.
C22_Witness ==
    /\ pc = "for"
    /\ open_long_positions # <<>>
    /\ parsed_trades # <<>>
    /\ Last(parsed_trades).side = "SHORT"
    /\ Last(parsed_trades).ticker = ticker
    /\ Last(parsed_trades).exit_description = Last(open_long_positions).description

\* C23: match_trades changes no field of the TradeAction objects it is
\* given and does not reorder the list it is given: remaining quantities
\* live on the objects it constructs, so a partially filled action still
\* reports its original quantity.
C23_InputImmutable ==
    /\ [][actions' = actions]_vars
    /\ [](\A i \in 1..Len(object_of.long) : object_of.long[i] = NewObject)
    /\ [](\A i \in 1..Len(object_of.short) : object_of.short[i] = NewObject)

\* match_trades has returned; an action was filled in part (a trade took
\* less than its quantity from the lot it opened, the rest is an open lot)
\* and the action still reports the quantity it came with.
C23_Witness ==
    /\ pc = "done"
    /\ \E i \in 1..Len(parsed_trades), j \in 1..Len(all_open_positions) :
         /\ parsed_trades[i].entry_description = all_open_positions[j].description
         /\ parsed_trades[i].quantity + all_open_positions[j].quantity = RowOf(all_open_positions[j].description).quantity

\* C24: the actions of a ticker are processed by date, and actions of one
\* date in the order in which they stand in the list given: the sort never
\* exchanges two actions of equal date, and the loop takes the sorted list
\* from its first element to its last.
C24_SameTimestampOrder ==
    /\ [](\A k, l \in 1..Len(ticker_actions_list) :
             k < l => /\ ticker_actions_list[k].date <= ticker_actions_list[l].date
                      /\ ticker_actions_list[k].date = ticker_actions_list[l].date => object_of.list[k] < object_of.list[l])
    /\ [](\A k \in 1..Len(ticker_actions_list) : ticker_actions_list[k] = actions[object_of.list[k]])
    /\ [][pc = "for" /\ pc' \in {"buy", "sell"} => action' = ticker_actions_list[idx]]_vars
    /\ [][idx' # idx => idx' = idx + 1 \/ (idx' = 1 /\ pc = "ticker")]_vars

\* Two actions of one ticker and one date, a SELL standing before a BUY in
\* the list given and both after an action of a later date, have been
\* processed in that order: the SELL opened the short lot the BUY covered.
C24_Witness ==
    /\ pc = "for"
    /\ Len(ticker_actions_list) = 3
    /\ idx = 3
    /\ ticker_actions_list[1].date = ticker_actions_list[2].date
    /\ ticker_actions_list[1].action = "SELL"
    /\ ticker_actions_list[2].action = "BUY"
    /\ object_of.list = <<2, 3, 1>>
    /\ parsed_trades # <<>>
    /\ Last(parsed_trades).side = "SHORT"

\* ------------------------------------------- properties: ticker independence

\* The closed trades and the open lots of ticker tk in the lists returned.
TradesOfTicker(tk) == SelectSeq(parsed_trades, LAMBDA x : x.ticker = tk)

LotsOfTicker(tk) == SelectSeq(all_open_positions, LAMBDA x : x.ticker = tk)

\* match_trades has been called on the accepted actions and the call is
\* over: it returned, or its exception left parse_trade_history_csv.
MatchCallOver == pc = "done" \/ (csvPc = "raised" /\ actions # <<>>)

\* The actions of ticker tk can be sorted: their dates compare.
OwnDatesCompare(tk) ==
    \A i, j \in 1..Len(actions) :
        actions[i].ticker = tk /\ actions[j].ticker = tk => tzinfo[i] = tzinfo[j]

\* C25: what match_trades produces for a ticker depends on that ticker's own
\* actions and their order only: for every ticker whose own actions can be
\* matched, the ticker's closed trades and open lots, in their order, are
\* what the matching of that ticker's actions alone gives, whatever the
\* actions of the other tickers in the list are.
C25_TickerIndependence ==
    MatchCallOver =>
        \A tk \in {actions[i].ticker : i \in 1..Len(actions)} :
            OwnDatesCompare(tk) =>
                /\ TradesOfTicker(tk) = TickerAlone(tk, ActionsOfTicker(actions, tk)).trades
                /\ LotsOfTicker(tk) = TickerAlone(tk, ActionsOfTicker(actions, tk)).lots

====
